---- MODULE Spec2Model ----
(***************************************************************************)
(* Model of ostree-container: the tar exporter of lib/src/buildoci.rs and  *)
(* the tar importer of lib/src/client.rs.                                  *)
(*                                                                         *)
(* Strings are sequences of one-character strings, so that the length,     *)
(* alphabet, split and extension operations of the code are computed.      *)
(* A path is the sequence of its components.  Option values are sequences  *)
(* of length at most one: None is << >> and Some(x) is << x >>.            *)
(***************************************************************************)
EXTENDS Integers, Sequences, FiniteSets, TLC

None == << >>
Some(x) == << x >>
IsSome(o) == o # << >>
Unwrap(o) == o[1]

Rep(c, n) == [i \in 1..n |-> c]

\* ------------------------------------------------------------ fixed words
W_dot == << "." >>
W_sysroot == << "s", "y", "s", "r", "o", "o", "t" >>
W_ostree == << "o", "s", "t", "r", "e", "e" >>
W_repo == << "r", "e", "p", "o" >>
W_objects == << "o", "b", "j", "e", "c", "t", "s" >>
W_xattrs == << "x", "a", "t", "t", "r", "s" >>
W_commit == << "c", "o", "m", "m", "i", "t" >>
W_commitmeta == << "c", "o", "m", "m", "i", "t", "m", "e", "t", "a" >>
W_dirtree == << "d", "i", "r", "t", "r", "e", "e" >>
W_dirmeta == << "d", "i", "r", "m", "e", "t", "a" >>
W_file == << "f", "i", "l", "e" >>
W_usr == << "u", "s", "r" >>
W_etc == << "e", "t", "c" >>
W_bin == << "b", "i", "n" >>
W_true == << "t", "r", "u", "e" >>
W_passwd == << "p", "a", "s", "s", "w", "d" >>
W_lib == << "l", "i", "b" >>
W_sh == << "s", "h" >>

HexDigits == << "0", "1", "2", "3", "4", "5", "6", "7",
                "8", "9", "a", "b", "c", "d", "e", "f" >>

\* ------------------------------------------------------------ checksums
\* validate_sha256: 64 characters, each in 0-9 or a-f.
HexChars == { HexDigits[i] : i \in 1..16 }

\* Variant: upper-case hexadecimal digits pass as well.
validate_sha256_anycase(s) ==
    Len(s) = 64 /\ \A i \in 1..Len(s) : s[i] \in HexChars \cup { "A", "B", "C", "D", "E", "F" }

validate_sha256(s) == Len(s) = 64 /\ \A i \in 1..Len(s) : s[i] \in HexChars

\* ------------------------------------------------------------ path helpers
\* Position of the last '.' of a file name, 0 when there is none.
LastDot(s) ==
    LET dots == { i \in 1..Len(s) : s[i] = "." }
    IN IF dots = {} THEN 0 ELSE CHOOSE i \in dots : \A j \in dots : j <= i

\* Path::extension of a file name: the part after the last '.', None when
\* there is no '.', when the only '.' is the first character, or for "..".
extension(s) ==
    IF s = << ".", "." >> \/ LastDot(s) <= 1
    THEN None
    ELSE Some(SubSeq(s, LastDot(s) + 1, Len(s)))

\* Path::file_stem of a file name: the part before the last '.', the whole
\* name when extension is None.
file_stem(s) ==
    IF s = << ".", "." >> \/ LastDot(s) <= 1
    THEN s
    ELSE SubSeq(s, 1, LastDot(s) - 1)

\* Path::file_name: the last component, None for an empty path.
file_name(p) == IF Len(p) = 0 THEN None ELSE Some(p[Len(p)])

\* Path::parent: the path without its last component.
parent(p) == IF Len(p) = 0 THEN None ELSE Some(SubSeq(p, 1, Len(p) - 1))

\* Path::strip_prefix, component-wise: Some(rest) when pre is a prefix.
strip_prefix(p, pre) ==
    IF Len(pre) <= Len(p) /\ SubSeq(p, 1, Len(pre)) = pre
    THEN Some(SubSeq(p, Len(pre) + 1, Len(p)))
    ELSE None

\* checksum.split_at(2)
split_at(s, n) == << SubSeq(s, 1, n), SubSeq(s, n + 1, Len(s)) >>

\* ------------------------------------------------------------ source repository
\* Checksums of the objects of the source repository.
Cs(a, b) == << a, b >> \o Rep("0", 62)

K1 == Cs("c", "1")
K2 == Cs("c", "2")
K3 == Cs("c", "3")
T1 == Cs("d", "1")
T2 == Cs("d", "2")
T3 == Cs("d", "3")
T4 == Cs("d", "4")
T5 == Cs("d", "5")
T6 == Cs("d", "6")
M1 == Cs("e", "1")
M2 == Cs("e", "2")
F1 == Cs("f", "1")
F2 == Cs("f", "2")
X1 == Cs("a", "1")
X2 == Cs("a", "2")
JunkSum == Cs("9", "9")

\* The variants of the source repository, by (object type, checksum).
\* K1 is a commit of  ./usr/bin/{passwd,sh}  and  ./usr/etc/{passwd,sh}
\* (bin and etc share the dirtree T2); K2 is a commit of the directory T2;
\* K3 is a commit of  ./usr/etc/passwd  and  ./usr/etc/lib/{passwd,sh}.
SrcObjects ==
    ( << "commit", K1 >> :> [kind |-> "commit", tree |-> T1, meta |-> M1] ) @@
    ( << "commit", K2 >> :> [kind |-> "commit", tree |-> T2, meta |-> M2] ) @@
    ( << "dirtree", T1 >> :>
        [kind |-> "dirtree", files |-> << >>,
         dirs |-> << [name |-> W_usr, tree |-> T3, meta |-> M1] >>] ) @@
    ( << "dirtree", T3 >> :>
        [kind |-> "dirtree", files |-> << >>,
         dirs |-> << [name |-> W_bin, tree |-> T2, meta |-> M2],
                     [name |-> W_etc, tree |-> T2, meta |-> M2] >>] ) @@
    ( << "commit", K3 >> :> [kind |-> "commit", tree |-> T4, meta |-> M1] ) @@
    ( << "dirtree", T4 >> :>
        [kind |-> "dirtree", files |-> << >>,
         dirs |-> << [name |-> W_usr, tree |-> T5, meta |-> M1] >>] ) @@
    ( << "dirtree", T5 >> :>
        [kind |-> "dirtree", files |-> << >>,
         dirs |-> << [name |-> W_etc, tree |-> T6, meta |-> M2] >>] ) @@
    ( << "dirtree", T6 >> :>
        [kind |-> "dirtree",
         files |-> << [name |-> W_passwd, csum |-> F1] >>,
         dirs |-> << [name |-> W_lib, tree |-> T2, meta |-> M2] >>] ) @@
    ( << "dirtree", T2 >> :>
        [kind |-> "dirtree",
         files |-> << [name |-> W_passwd, csum |-> F1],
                      [name |-> W_sh, csum |-> F2] >>,
         dirs |-> << >>] ) @@
    ( << "dirmeta", M1 >> :> [kind |-> "dirmeta", id |-> "m1"] ) @@
    ( << "dirmeta", M2 >> :> [kind |-> "dirmeta", id |-> "m2"] ) @@
    ( << "file", F1 >> :>
        [kind |-> "file", ftype |-> "Regular", target |-> None, xattrs |-> X1] ) @@
    ( << "file", F2 >> :>
        [kind |-> "file", ftype |-> "SymbolicLink", target |-> Some(W_true),
         xattrs |-> X1] ) @@
    ( << "xattrs", X1 >> :> [kind |-> "xattrs", id |-> "x1"] ) @@
    ( << "xattrs", X2 >> :> [kind |-> "xattrs", id |-> "x2"] )

SrcCommits == { K1, K2, K3 }

\* Variant::get_data_as_bytes: the serialised form of a variant, a byte
\* string of one unit per variant.
Serialize(v) == << v >>
JunkBytes == << [kind |-> "junk"] >>
ContentBytes(c) == << [kind |-> "content", of |-> c] >>

\* SHA-256 of a byte string: the checksum under which the source repository
\* holds the variant it serialises.
Sha256(b) ==
    LET hit == { k \in DOMAIN SrcObjects : Serialize(SrcObjects[k]) = b }
    IN IF hit = {} THEN JunkSum ELSE (CHOOSE k \in hit : TRUE)[2]

\* Repo::load_variant / load_commit
load_variant(objtype, checksum) == SrcObjects[<< objtype, checksum >>]

\* ------------------------------------------------------------ exporter
\* The metadata objects reachable from a dirtree, and from a commit.
RECURSIVE TreeClosure(_)
TreeClosure(t) ==
    LET v == load_variant("dirtree", t)
    IN { << "dirtree", t >> } \cup
       UNION { { << "dirmeta", v.dirs[i].meta >> } \cup TreeClosure(v.dirs[i].tree)
               : i \in 1..Len(v.dirs) }

CommitClosure(c) ==
    LET v == load_variant("commit", c)
    IN { << "commit", c >>, << "dirmeta", v.meta >> } \cup TreeClosure(v.tree)

\* format!("{:#04x}", d)
Hex04(d) == << "0", "x", HexDigits[(d \div 16) + 1], HexDigits[(d % 16) + 1] >>

\* The upper end of the range 0..0xFF of ostree_metadata_to_tar (exclusive).
ShardRangeEnd == 255

\* One entry of the loop "Pre create the object directories": a blank GNU
\* header (entry type Regular, size 0) with only the path set.
ShardEntry(d) ==
    [etype |-> "Regular",
     path |-> << W_dot, W_ostree, W_repo, W_objects, Hex04(d) >>,
     size |-> 0, link |-> None, data |-> << >>]

\* The tar path OstreeMetadataWriter::append gives an object.
MetaObjectPath(objtype, checksum) ==
    LET fr == split_at(checksum, 2)
    IN << W_dot, W_ostree, W_repo, W_objects, fr[1], fr[2] >>

\* The panic of the debug assertion of append.
PanicWasPresent == "panicked: assertion failed: !was_present"

\* Variant: every call emits its entry.
append_nodedup(w, objtype, checksum, v) ==
    [w EXCEPT !.out = Append(w.out,
                        [etype |-> "Regular",
                         path |-> MetaObjectPath(objtype, checksum),
                         size |-> Len(Serialize(v)), link |-> None,
                         data |-> Serialize(v)])]

\* OstreeMetadataWriter::append on the writer w = [out, wrote_dirtree,
\* wrote_dirmeta, loads]: dedup on the set of the object type passed, then
\* one regular entry holding the variant's bytes.  HashSet::insert gives
\* true for a new element, so the debug_assert!(!was_present) after each
\* insert fails on the first dirmeta in a build with debug assertions
\* (PanicWasPresent, taken by export_layer); the stream modelled here is
\* that of a build without them.
append(w, objtype, checksum, v) ==
    IF objtype = "dirtree" /\ checksum \in w.wrote_dirtree THEN w
    ELSE IF objtype = "dirmeta" /\ checksum \in w.wrote_dirmeta THEN w
    ELSE [w EXCEPT
            !.out = Append(w.out,
                      [etype |-> "Regular",
                       path |-> MetaObjectPath(objtype, checksum),
                       size |-> Len(Serialize(v)), link |-> None,
                       data |-> Serialize(v)]),
            !.wrote_dirtree = IF objtype = "dirtree"
                              THEN w.wrote_dirtree \cup { checksum }
                              ELSE w.wrote_dirtree,
            !.wrote_dirmeta = IF objtype = "dirmeta"
                              THEN w.wrote_dirmeta \cup { checksum }
                              ELSE w.wrote_dirmeta]

\* OstreeMetadataWriter::append_dirtree: the dirtree variant is loaded
\* (loads keeps the checksums loaded, in order) and appended with object
\* type DirMeta, then for each subdirectory its dirmeta is appended and the
\* walk recurses into its dirtree, whether append emitted anything or not.
RECURSIVE append_dirtree(_, _)
RECURSIVE append_subdirs(_, _, _)
append_dirtree(w, checksum) ==
    LET v == load_variant("dirtree", checksum)
    IN append_subdirs(append([w EXCEPT !.loads = Append(@, checksum)],
                             "dirmeta", checksum, v),
                      v.dirs, 1)

append_subdirs(w, dirs, i) ==
    IF i > Len(dirs) THEN w
    ELSE LET item == dirs[i]
             w1 == append(w, "dirmeta", item.meta, load_variant("dirmeta", item.meta))
         IN append_subdirs(append_dirtree(w1, item.tree), dirs, i + 1)

\* The OstreeMetadataWriter when ostree_metadata_to_tar returns: the shard
\* entries, the commit, the root dirmeta, then the dirtree walk.
metadata_writer(out, commit_checksum) ==
    LET shards == [d \in 1..ShardRangeEnd |-> ShardEntry(d - 1)]
        w0 == [out |-> out \o shards, wrote_dirtree |-> {}, wrote_dirmeta |-> {},
               loads |-> << >>]
        commit_v == load_variant("commit", commit_checksum)
        w1 == append(w0, "commit", commit_checksum, commit_v)
        w2 == append(w1, "dirmeta", commit_v.meta, load_variant("dirmeta", commit_v.meta))
    IN append_dirtree(w2, commit_v.tree)

\* Variant: the root dirmeta is appended after the dirtree walk.
ostree_metadata_to_tar_walkfirst(out, commit_checksum) ==
    LET shards == [d \in 1..ShardRangeEnd |-> ShardEntry(d - 1)]
        w0 == [out |-> out \o shards, wrote_dirtree |-> {}, wrote_dirmeta |-> {},
               loads |-> << >>]
        commit_v == load_variant("commit", commit_checksum)
        w1 == append(w0, "commit", commit_checksum, commit_v)
        w2 == append_dirtree(w1, commit_v.tree)
    IN append(w2, "dirmeta", commit_v.meta, load_variant("dirmeta", commit_v.meta)).out

\* ostree_metadata_to_tar: what the writer put on the stream.
ostree_metadata_to_tar(out, commit_checksum) ==
    metadata_writer(out, commit_checksum).out

\* Variant: the prefix is matched on the text of the path.
map_path_text(p) ==
    IF Len(p) >= 3 /\ p[1] = W_dot /\ p[2] = W_usr
       /\ Len(p[3]) >= 3 /\ SubSeq(p[3], 1, 3) = W_etc
    THEN << W_dot, W_etc >>
         \o (IF Len(p[3]) > 3 THEN << SubSeq(p[3], 4, Len(p[3])) >> ELSE << >>)
         \o SubSeq(p, 4, Len(p))
    ELSE p

\* Variant: every path is given back as it is.
map_path_keep(p) == p

\* map_path: ./usr/etc/<r> becomes ./etc/<r>, component-wise.
map_path(p) ==
    LET r == strip_prefix(p, << W_dot, W_usr, W_etc >>)
    IN IF IsSome(r) THEN << W_dot, W_etc >> \o Unwrap(r) ELSE p

\* dirpath.join(name): joining "." to the empty path gives ".".
join(dirpath, name) == Append(dirpath, name)

\* ostree_content_to_tar on the file f = [name, ftype, csum]: a directory
\* entry followed by its children (files, then subdirectories), a symlink
\* entry, or a regular entry with the file's content.
RECURSIVE ostree_content_to_tar(_, _, _)
RECURSIVE content_children(_, _, _, _)
ostree_content_to_tar(out, dirpath, f) ==
    LET path == map_path(join(dirpath, f.name))
    IN CASE f.ftype = "Directory" ->
              LET v == load_variant("dirtree", f.csum)
                  kids == [i \in 1..Len(v.files) |->
                              [name |-> v.files[i].name,
                               ftype |-> load_variant("file", v.files[i].csum).ftype,
                               csum |-> v.files[i].csum]]
                          \o [i \in 1..Len(v.dirs) |->
                              [name |-> v.dirs[i].name, ftype |-> "Directory",
                               csum |-> v.dirs[i].tree]]
              IN content_children(
                     Append(out, [etype |-> "Directory", path |-> path, size |-> 0,
                                  link |-> None, data |-> << >>]),
                     path, kids, 1)
         [] f.ftype = "SymbolicLink" ->
              Append(out, [etype |-> "Symlink", path |-> path, size |-> 0,
                           link |-> Some(<< Unwrap(load_variant("file", f.csum).target) >>),
                           data |-> << >>])
         [] OTHER ->
              Append(out, [etype |-> "Regular", path |-> path,
                           size |-> Len(ContentBytes(f.csum)), link |-> None,
                           data |-> ContentBytes(f.csum)])

content_children(out, path, kids, i) ==
    IF i > Len(kids) THEN out
    ELSE content_children(ostree_content_to_tar(out, path, kids[i]), path, kids, i + 1)

\* The tar stream of export_ostree_ref_to_blobdir for a commit: the
\* metadata, then the content walk from the commit's root.
export_ostree_ref_to_blobdir(ostree_commit) ==
    LET root == [name |-> W_dot, ftype |-> "Directory",
                 csum |-> load_variant("commit", ostree_commit).tree]
    IN ostree_content_to_tar(ostree_metadata_to_tar(<< >>, ostree_commit), << >>, root)

\* ------------------------------------------------------------ importer
\* 10u64 * 1024 * 1024 of validate_metadata_header
MaxMetadataSize == 10 * 1024 * 1024

MAX_XATTR_SIZE == 1024 * 1024

Initial == [tag |-> "Initial"]
Importing(c) == [tag |-> "Importing", c |-> c]

\* Variant: the size of the entry is not looked at.
validate_metadata_header_nosize(e) ==
    IF e.etype # "Regular" THEN Some("Invalid non-regular metadata object")
    ELSE None

\* validate_metadata_header: None, or the error.
validate_metadata_header(e) ==
    IF e.etype # "Regular" THEN Some("Invalid non-regular metadata object")
    ELSE IF e.size > MaxMetadataSize THEN Some("object of size exceeds bytes")
    ELSE None

\* header_to_gfileinfo: None, or the error.
header_to_gfileinfo(e) ==
    IF e.etype \notin { "Regular", "Symlink" } THEN Some("Invalid tar type")
    ELSE IF e.etype = "Symlink" /\ ~IsSome(e.link) THEN Some("Invalid symlink")
    ELSE None

format_for_objtype(t) ==
    IF t \in { "dirtree", "dirmeta", "commit" } THEN Some(t) ELSE None

objtype_from_string(t) ==
    CASE t = W_commit -> Some("commit")
      [] t = W_dirtree -> Some("dirtree")
      [] t = W_dirmeta -> Some("dirmeta")
      [] t = W_file -> Some("file")
      [] OTHER -> None

\* variant_new_from_bytes(vtype, bytes, false)
variant_new_from_bytes(vtype, bytes) == [vtype |-> vtype, bytes |-> bytes]

\* Repo::write_metadata(objtype, Some(checksum), v): the repository checks
\* the expected checksum against the variant's bytes.
write_metadata_ok(objtype, checksum, v) == Sha256(v.bytes) = checksum

\* Importer::import_metadata: [err, writes].
import_metadata(e, checksum, objtype) ==
    IF ~IsSome(format_for_objtype(objtype))
    THEN [err |-> Some("Unhandled objtype"), writes |-> {}]
    ELSE IF IsSome(validate_metadata_header(e))
    THEN [err |-> validate_metadata_header(e), writes |-> {}]
    ELSE IF ~write_metadata_ok(objtype, checksum,
                variant_new_from_bytes(Unwrap(format_for_objtype(objtype)), e.data))
    THEN [err |-> Some("write_metadata: corrupted object"), writes |-> {}]
    ELSE [err |-> None, writes |-> { << objtype, checksum >> }]

\* import_commit that forgets to record the commit it wrote.
import_commit_state_unset(checksum) == Initial

\* The importer state import_commit leaves after a successful write.
import_commit_state(checksum) == Importing(checksum)

\* The panics of the assertions at the start of import_commit and of
\* import_xattr_ref.
PanicState == "panicked: assertion failed: self.state == ImportState::Initial"
PanicNextXattrs == "panicked: assertion failed: self.next_xattrs.is_none()"

\* Importer::import_commit in the state st: [err, writes, state].
import_commit(st, e, checksum) ==
    IF st # Initial
    THEN [err |-> Some(PanicState), writes |-> {}, state |-> st]
    ELSE LET r == import_metadata(e, checksum, "commit")
         IN [err |-> r.err, writes |-> r.writes,
             state |-> IF IsSome(r.err) THEN st ELSE import_commit_state(checksum)]

\* Importer::import_content_object: [err, call]; call is what it was handed.
\* It reads the header and writes nothing.
import_content_object(e, checksum, xattr_ref) ==
    IF IsSome(header_to_gfileinfo(e))
    THEN [err |-> header_to_gfileinfo(e), writes |-> {},
          call |-> Some([checksum |-> checksum, xattrs |-> xattr_ref, etype |-> e.etype])]
    ELSE [err |-> None, writes |-> {},
          call |-> Some([checksum |-> checksum, xattrs |-> xattr_ref, etype |-> e.etype])]

\* Importer::import_xattr_ref with the slot next_xattrs as it finds it:
\* [err, next_xattrs].
import_xattr_ref(slot, e, target) ==
    IF IsSome(slot)
    THEN [err |-> Some(PanicNextXattrs), next_xattrs |-> slot]
    ELSE IF e.etype # "Link"
    THEN [err |-> Some("Non-hardlink xattr reference found"), next_xattrs |-> None]
    ELSE IF ~IsSome(e.link)
    THEN [err |-> Some("No xattr link content"), next_xattrs |-> None]
    ELSE IF ~IsSome(file_name(Unwrap(e.link)))
    THEN [err |-> Some("Invalid xattr link"), next_xattrs |-> None]
    ELSE IF ~validate_sha256(Unwrap(file_name(Unwrap(e.link))))
    THEN [err |-> Some("Invalid sha256 checksum"), next_xattrs |-> None]
    ELSE [err |-> None,
          next_xattrs |-> Some(<< target, Unwrap(file_name(Unwrap(e.link))) >>)]

\* The match with the commit arm taken in any importer state.
MatchArm_recommit(objtype, is_xattrs, st) ==
    IF objtype = "commit" THEN "import_commit"
    ELSE IF objtype = "file" /\ is_xattrs /\ st.tag = "Importing" THEN "import_xattr_ref"
    ELSE IF objtype = "file" /\ ~is_xattrs /\ st.tag = "Importing"
    THEN "import_content_object"
    ELSE IF ~is_xattrs /\ st.tag = "Importing" THEN "import_metadata"
    ELSE IF st.tag = "Initial" THEN "Found content object before commit"
    ELSE "Found xattrs for non-file object type"

\* The match with the metadata arm taken in any importer state.
MatchArm_anystate(objtype, is_xattrs, st) ==
    IF objtype = "commit" /\ st.tag = "Initial" THEN "import_commit"
    ELSE IF objtype = "file" /\ is_xattrs /\ st.tag = "Importing" THEN "import_xattr_ref"
    ELSE IF objtype = "file" /\ ~is_xattrs /\ st.tag = "Importing"
    THEN "import_content_object"
    ELSE IF ~is_xattrs THEN "import_metadata"
    ELSE IF st.tag = "Initial" THEN "Found content object before commit"
    ELSE IF objtype = "commit" /\ st.tag = "Importing"
    THEN "Found multiple commit objects"
    ELSE "Found xattrs for non-file object type"

\* The arm of the match of import_object that (objtype, is_xattrs, state)
\* selects, the arms tried in the order of the source.
MatchArm(objtype, is_xattrs, st) ==
    IF objtype = "commit" /\ st.tag = "Initial" THEN "import_commit"
    ELSE IF objtype = "file" /\ is_xattrs /\ st.tag = "Importing" THEN "import_xattr_ref"
    ELSE IF objtype = "file" /\ ~is_xattrs /\ st.tag = "Importing"
    THEN "import_content_object"
    ELSE IF ~is_xattrs /\ st.tag = "Importing" THEN "import_metadata"
    ELSE IF st.tag = "Initial" THEN "Found content object before commit"
    ELSE IF objtype = "commit" /\ st.tag = "Importing"
    THEN "Found multiple commit objects"
    ELSE "Found xattrs for non-file object type"

\* The xattr check without the comparison of the pending target.
resolve_xattr_ref_nocheck(pending, checksum, xattrs) ==
    IF ~IsSome(pending) THEN [err |-> None, xattr_ref |-> None]
    ELSE IF Unwrap(pending)[2] \notin DOMAIN xattrs
    THEN [err |-> Some("Failed to find xattr"), xattr_ref |-> None]
    ELSE [err |-> None, xattr_ref |-> Some(xattrs[Unwrap(pending)[2]])]

\* The xattr check that hands no xattrs on when the blob is not in the map.
resolve_xattr_ref_lenient(pending, checksum, xattrs) ==
    IF ~IsSome(pending) THEN [err |-> None, xattr_ref |-> None]
    ELSE IF Unwrap(pending)[1] # checksum
    THEN [err |-> Some("Found object but previous xattr was"), xattr_ref |-> None]
    ELSE IF Unwrap(pending)[2] \notin DOMAIN xattrs
    THEN [err |-> None, xattr_ref |-> None]
    ELSE [err |-> None, xattr_ref |-> Some(xattrs[Unwrap(pending)[2]])]

\* The xattr check of import_object once the checksum is known: the pending
\* reference must name this checksum, and its blob must be in the map.
\* [err, xattr_ref].
resolve_xattr_ref(pending, checksum, xattrs) ==
    IF ~IsSome(pending) THEN [err |-> None, xattr_ref |-> None]
    ELSE IF Unwrap(pending)[1] # checksum
    THEN [err |-> Some("Found object but previous xattr was"), xattr_ref |-> None]
    ELSE IF Unwrap(pending)[2] \notin DOMAIN xattrs
    THEN [err |-> Some("Failed to find xattr"), xattr_ref |-> None]
    ELSE [err |-> None, xattr_ref |-> Some(xattrs[Unwrap(pending)[2]])]

\* The parse of an object path (relative to objects/) by import_object, up
\* to validate_sha256: [err, is_xattrs, objtype (string), checksum, taken].
\* taken says whether next_xattrs.take() was reached.
\* Variant: the lengths of the two halves are left to validate_sha256,
\* which sees only their concatenation.
parse_object_path_nolen(p, pending) ==
    LET bad(msg, tk) == [err |-> Some(msg), is_xattrs |-> FALSE, objtype |-> << >>,
                         checksum |-> << >>, taken |-> tk]
        par == parent(p)
        parentname == IF IsSome(par) THEN file_name(Unwrap(par)) ELSE None
        name0 == Unwrap(file_name(p))
        objtype0 == extension(name0)
        is_xattrs == objtype0 = Some(W_xattrs)
        name == IF is_xattrs THEN file_stem(name0) ELSE name0
        objtype == IF is_xattrs THEN extension(name) ELSE objtype0
        checksum_rest == file_stem(name)
        checksum == Unwrap(parentname) \o checksum_rest
    IN IF ~IsSome(parentname) THEN bad("Invalid path (no parent)", FALSE)
       ELSE IF ~IsSome(objtype0) THEN bad("Invalid objpath", FALSE)
       ELSE IF is_xattrs /\ IsSome(pending) THEN bad("Found multiple xattrs", TRUE)
       ELSE IF ~IsSome(objtype) THEN bad("Invalid objpath", TRUE)
       ELSE IF ~validate_sha256(checksum) THEN bad("Invalid sha256 checksum", TRUE)
       ELSE [err |-> None, is_xattrs |-> is_xattrs, objtype |-> Unwrap(objtype),
             checksum |-> checksum, taken |-> TRUE]

parse_object_path(p, pending) ==
    LET bad(msg, tk) == [err |-> Some(msg), is_xattrs |-> FALSE, objtype |-> << >>,
                         checksum |-> << >>, taken |-> tk]
        par == parent(p)
        parentname == IF IsSome(par) THEN file_name(Unwrap(par)) ELSE None
        name0 == Unwrap(file_name(p))
        objtype0 == extension(name0)
        is_xattrs == objtype0 = Some(W_xattrs)
        name == IF is_xattrs THEN file_stem(name0) ELSE name0
        objtype == IF is_xattrs THEN extension(name) ELSE objtype0
        checksum_rest == file_stem(name)
        checksum == Unwrap(parentname) \o checksum_rest
    IN IF ~IsSome(parentname) THEN bad("Invalid path (no parent)", FALSE)
       ELSE IF Len(Unwrap(parentname)) # 2 THEN bad("Invalid checksum parent", FALSE)
       ELSE IF ~IsSome(objtype0) THEN bad("Invalid objpath", FALSE)
       ELSE IF is_xattrs /\ IsSome(pending) THEN bad("Found multiple xattrs", TRUE)
       ELSE IF ~IsSome(objtype) THEN bad("Invalid objpath", TRUE)
       ELSE IF Len(checksum_rest) # 62 THEN bad("Invalid checksum rest", TRUE)
       ELSE IF ~validate_sha256(checksum) THEN bad("Invalid sha256 checksum", TRUE)
       ELSE [err |-> None, is_xattrs |-> is_xattrs, objtype |-> Unwrap(objtype),
             checksum |-> checksum, taken |-> TRUE]

\* Variant: an entry that fails puts the importer back to Initial.
Outcome_reset(err, st, nx, wr, call) ==
    [err |-> err, state |-> IF IsSome(err) THEN Initial ELSE st,
     next_xattrs |-> nx, writes |-> wr, call |-> call]

\* What import_object returns and leaves in the Importer: [err, state,
\* next_xattrs, writes, call].
Outcome(err, st, nx, wr, call) ==
    [err |-> err, state |-> st, next_xattrs |-> nx, writes |-> wr, call |-> call]

\* Importer::import_object on the importer imp = [state, xattrs,
\* next_xattrs], the entry e and its path p relative to objects/.  nx0 is
\* the slot next_xattrs once the parse is over: emptied by take() when the
\* parse got that far.
import_object(imp, e, p) ==
    LET pp == parse_object_path(p, imp.next_xattrs)
        out(err, st, nx, wr, call) == Outcome(err, st, nx, wr, call)
        nx0 == IF pp.taken THEN None ELSE imp.next_xattrs
        xr == resolve_xattr_ref(imp.next_xattrs, pp.checksum, imp.xattrs)
        ot == objtype_from_string(pp.objtype)
        arm == MatchArm(Unwrap(ot), pp.is_xattrs, imp.state)
    IN IF IsSome(pp.err) THEN out(pp.err, imp.state, nx0, {}, None)
       ELSE IF IsSome(xr.err) THEN out(xr.err, imp.state, nx0, {}, None)
       ELSE IF ~IsSome(ot) THEN out(Some("Invalid object type"), imp.state, nx0, {}, None)
       ELSE CASE arm = "import_commit" ->
                   LET r == import_commit(imp.state, e, pp.checksum)
                   IN out(r.err, r.state, nx0, r.writes, None)
              [] arm = "import_xattr_ref" ->
                   LET r == import_xattr_ref(nx0, e, pp.checksum)
                   IN out(r.err, imp.state, r.next_xattrs, {}, None)
              [] arm = "import_content_object" ->
                   LET r == import_content_object(e, pp.checksum, xr.xattr_ref)
                   IN out(r.err, imp.state, nx0, r.writes, r.call)
              [] arm = "import_metadata" ->
                   LET r == import_metadata(e, pp.checksum, Unwrap(ot))
                   IN out(r.err, imp.state, nx0, r.writes, None)
              [] OTHER -> out(Some(arm), imp.state, nx0, {}, None)

\* Variant: the size of the entry is not looked at.
import_xattrs_nosize(st, xattrs, e) ==
    LET name == file_name(e.path)
    IN IF st.tag = "Initial"
       THEN [err |-> Some("Found xattr object before commit"), xattrs |-> xattrs]
       ELSE IF ~IsSome(name)
       THEN [err |-> Some("Invalid xattr dir"), xattrs |-> xattrs]
       ELSE IF ~validate_sha256(Unwrap(name))
       THEN [err |-> Some("Invalid sha256 checksum"), xattrs |-> xattrs]
       ELSE IF e.etype # "Regular"
       THEN [err |-> Some("Invalid xattr entry of type"), xattrs |-> xattrs]
       ELSE [err |-> None,
             xattrs |-> (Unwrap(name) :> variant_new_from_bytes("a(ayay)", e.data))
                        @@ xattrs]

\* Importer::import_xattrs on the importer state, the xattr map and the
\* entry: [err, xattrs].
import_xattrs(st, xattrs, e) ==
    LET name == file_name(e.path)
    IN IF st.tag = "Initial"
       THEN [err |-> Some("Found xattr object before commit"), xattrs |-> xattrs]
       ELSE IF ~IsSome(name)
       THEN [err |-> Some("Invalid xattr dir"), xattrs |-> xattrs]
       ELSE IF ~validate_sha256(Unwrap(name))
       THEN [err |-> Some("Invalid sha256 checksum"), xattrs |-> xattrs]
       ELSE IF e.etype # "Regular"
       THEN [err |-> Some("Invalid xattr entry of type"), xattrs |-> xattrs]
       ELSE IF e.size > MAX_XATTR_SIZE
       THEN [err |-> Some("Invalid xattr size"), xattrs |-> xattrs]
       ELSE [err |-> None,
             xattrs |-> (Unwrap(name) :> variant_new_from_bytes("a(ayay)", e.data))
                        @@ xattrs]

\* commit that returns the default checksum when none was remembered.
commit_result_default(st) ==
    [st |-> "ok", val |-> IF st.tag = "Importing" THEN st.c ELSE << >>]

\* Importer::commit after commit_transaction succeeded: the result.
commit_result(st) ==
    IF st.tag = "Importing"
    THEN [st |-> "ok", val |-> st.c]
    ELSE [st |-> "err", msg |-> "Failed to find a commit object to import"]

\* ------------------------------------------------------------ tar entries
Dot == << "." >>

RepoPrefix == << W_sysroot, W_ostree, W_repo >>

\* sysroot/ostree/repo/objects/<xx>/<rest>.<ext>...
ObjectEntry(checksum, exts, etype, link, data) ==
    [etype |-> etype,
     path |-> RepoPrefix \o << W_objects, split_at(checksum, 2)[1],
                               split_at(checksum, 2)[2] \o exts >>,
     size |-> Len(data), link |-> link, data |-> data]

\* sysroot/ostree/repo/xattrs/<name>
XattrsEntry(name, etype, data) ==
    [etype |-> etype, path |-> RepoPrefix \o << W_xattrs, name >>,
     size |-> Len(data), link |-> None, data |-> data]

XattrsLink(x) == Some(RepoPrefix \o << W_xattrs, x >>)

E_commit == Dot \o W_commit
E_dirtree == Dot \o W_dirtree
E_dirmeta == Dot \o W_dirmeta
E_file == Dot \o W_file
E_commitmeta == Dot \o W_commitmeta
E_xattrs == Dot \o W_xattrs

Meta(t, c) == Serialize(load_variant(t, c))

\* The entries an arbitrary tar stream is made of.
Entries ==
    { ObjectEntry(K1, E_commit, "Regular", None, Meta("commit", K1)),
      ObjectEntry(K2, E_commit, "Regular", None, Meta("commit", K2)),
      ObjectEntry(K1, E_commit, "Regular", None, JunkBytes),
      ObjectEntry(T2, E_dirtree, "Regular", None, Meta("dirtree", T2)),
      ObjectEntry(T2, E_dirtree, "Symlink", Some(<< W_true >>), << >>),
      ObjectEntry(M2, E_dirmeta, "Regular", None, Meta("dirmeta", M2)),
      ObjectEntry(K1, E_commitmeta, "Regular", None, JunkBytes),
      ObjectEntry(F1, E_file, "Regular", None, ContentBytes(F1)),
      ObjectEntry(F2, E_file, "Symlink", Some(<< W_true >>), << >>),
      ObjectEntry(F1, E_file, "Link", XattrsLink(X1), << >>),
      ObjectEntry(F1, E_file \o E_xattrs, "Link", XattrsLink(X1), << >>),
      ObjectEntry(F2, E_file \o E_xattrs, "Link", XattrsLink(X2), << >>),
      ObjectEntry(T2, E_file \o E_xattrs, "Link", XattrsLink(X1), << >>),
      ObjectEntry(F1, E_file \o E_xattrs, "Regular", None, << >>),
      ObjectEntry(K2, E_commit \o E_xattrs, "Link", XattrsLink(X1), << >>),
      ObjectEntry(K2, E_commit \o E_xattrs, "Regular", None, Meta("commit", K2)),
      ObjectEntry(T2, E_dirtree \o E_xattrs, "Regular", None, Meta("dirtree", T2)),
      ObjectEntry(F1, << >>, "Regular", None, ContentBytes(F1)),
      XattrsEntry(X1, "Regular", Meta("xattrs", X1)),
      XattrsEntry(X1, "Regular", Meta("xattrs", X2)),
      XattrsEntry(W_true, "Regular", Meta("xattrs", X1)),
      [etype |-> "Directory", path |-> RepoPrefix \o << W_objects, << "f", "1" >> >>,
       size |-> 0, link |-> None, data |-> << >>],
      [etype |-> "Regular", path |-> RepoPrefix \o << W_repo >>,
       size |-> 0, link |-> None, data |-> << >>],
      [etype |-> "Link", path |-> << W_dot, W_usr, W_bin, W_true >>, size |-> 0,
       link |-> Some(RepoPrefix \o << W_objects, split_at(F1, 2)[1],
                                      split_at(F1, 2)[2] \o E_file >>),
       data |-> << >>] }

\* An entry whose header gives the size n; data stands for that many bytes.
Sized(e, n) == [e EXCEPT !.size = n]

\* objects/<par>/<name>, for names that are no checksum.
RawObjectEntry(par, name, etype, data) ==
    [etype |-> etype, path |-> RepoPrefix \o << W_objects, par, name >>,
     size |-> Len(data), link |-> None, data |-> data]

\* A byte that is not valid UTF-8.
NonUtf8Byte == "\\xff"

\* Utf8Path::from_path succeeds on the path.
from_path_ok(path) ==
    \A i \in 1..Len(path) : \A j \in 1..Len(path[i]) : path[i][j] # NonUtf8Byte

\* The detached metadata of the commit c.
CommitMetaBytes(c) == << [kind |-> "commitmeta", commit |-> c] >>

\* The entries of the streams that probe the format checks: entry types,
\* sizes at and above the limits, malformed object paths and xattrs names,
\* entries outside the repository and paths that are not UTF-8.
FormatEntries ==
    { ObjectEntry(K1, E_commit, "Regular", None, Meta("commit", K1)),
      Sized(ObjectEntry(K1, E_commit, "Regular", None, Meta("commit", K1)),
            MaxMetadataSize),
      Sized(ObjectEntry(K1, E_commit, "Regular", None, Meta("commit", K1)),
            MaxMetadataSize + 1),
      ObjectEntry(K1, E_commit, "Symlink", Some(<< W_true >>), << >>),
      Sized(ObjectEntry(T2, E_dirtree, "Regular", None, Meta("dirtree", T2)),
            MaxMetadataSize),
      Sized(ObjectEntry(T2, E_dirtree, "Regular", None, Meta("dirtree", T2)),
            MaxMetadataSize + 1),
      ObjectEntry(T2, E_dirtree, "Link", XattrsLink(X1), << >>),
      ObjectEntry(M2, E_dirmeta, "Regular", None, Meta("dirmeta", M2)),
      ObjectEntry(M2, E_dirmeta, "Fifo", None, << >>),
      ObjectEntry(M2, E_dirmeta, "Directory", None, << >>),
      ObjectEntry(K1, E_commitmeta, "Regular", None, CommitMetaBytes(K1)),
      ObjectEntry(F1, E_file, "Regular", None, ContentBytes(F1)),
      ObjectEntry(F1, E_file \o E_xattrs, "Link", XattrsLink(X1), << >>),
      XattrsEntry(X1, "Regular", Meta("xattrs", X1)),
      Sized(XattrsEntry(X1, "Regular", Meta("xattrs", X1)), MAX_XATTR_SIZE),
      Sized(XattrsEntry(X1, "Regular", Meta("xattrs", X1)), MAX_XATTR_SIZE + 1),
      XattrsEntry(X1, "Symlink", << >>),
      XattrsEntry(SubSeq(X1, 1, 63), "Regular", Meta("xattrs", X1)),
      XattrsEntry([X1 EXCEPT ![1] = "A"], "Regular", Meta("xattrs", X1)),
      RawObjectEntry(SubSeq(T2, 1, 3), SubSeq(T2, 4, 64) \o E_dirtree, "Regular",
                     Meta("dirtree", T2)),
      RawObjectEntry(SubSeq(K1, 1, 3), SubSeq(K1, 4, 64) \o E_commit, "Regular",
                     Meta("commit", K1)),
      RawObjectEntry(SubSeq(M2, 1, 1), SubSeq(M2, 2, 64) \o E_dirmeta, "Regular",
                     Meta("dirmeta", M2)),
      RawObjectEntry(SubSeq(M2, 1, 2), SubSeq(M2, 3, 63) \o E_dirmeta, "Regular",
                     Meta("dirmeta", M2)),
      RawObjectEntry(SubSeq(M2, 1, 2), SubSeq(M2, 3, 64) \o << "0" >> \o E_dirmeta,
                     "Regular", Meta("dirmeta", M2)),
      RawObjectEntry(<< "e", "2" >>, Rep("0", 61) \o << "F" >> \o E_dirmeta, "Regular",
                     Meta("dirmeta", M2)),
      RawObjectEntry(<< "g", "2" >>, Rep("0", 62) \o E_dirmeta, "Regular",
                     Meta("dirmeta", M2)),
      RawObjectEntry(<< "e", "2" >>, Rep("0", 30) \o Dot \o Rep("0", 31) \o E_dirmeta,
                     "Regular", Meta("dirmeta", M2)),
      [etype |-> "Regular", path |-> RepoPrefix \o << W_objects, SubSeq(M2, 3, 64) \o E_dirmeta >>,
       size |-> 1, link |-> None, data |-> Meta("dirmeta", M2)],
      [etype |-> "Regular", path |-> RepoPrefix \o << W_repo >>,
       size |-> 0, link |-> None, data |-> << >>],
      [etype |-> "Regular", path |-> << W_ostree, W_repo, W_objects, << "e", "2" >>,
                                        SubSeq(M2, 3, 64) \o E_dirmeta >>,
       size |-> 1, link |-> None, data |-> Meta("dirmeta", M2)],
      [etype |-> "Link", path |-> << W_dot, W_usr, W_bin, W_true >>, size |-> 0,
       link |-> Some(RepoPrefix \o << W_objects, split_at(F1, 2)[1],
                                      split_at(F1, 2)[2] \o E_file >>),
       data |-> << >>],
      [etype |-> "Directory", path |-> << W_usr, << NonUtf8Byte >> >>,
       size |-> 0, link |-> None, data |-> << >>],
      [etype |-> "Regular", path |-> << W_usr, << NonUtf8Byte >> >>,
       size |-> 0, link |-> None, data |-> << >>],
      RawObjectEntry(<< "e", "2" >>, Rep("0", 61) \o << NonUtf8Byte >> \o E_dirmeta,
                     "Regular", Meta("dirmeta", M2)) }

\* ------------------------------------------------------------ state
VARIABLES
    pc,           \* position of import_tarball: "idle", "loop", "done"
    state,        \* Importer.state
    xattrs,       \* Importer.xattrs
    next_xattrs,  \* Importer.next_xattrs
    txn,          \* the repository's transaction: "none", "open", "committed", "aborted"
    staged,       \* objects written inside the open transaction
    repo,         \* committed objects of the destination repository
    repo0,        \* the committed objects before the import
    result,       \* what import_tarball returned
    tar,          \* the exported stream still to be read
    exported,     \* Some(commit) when the stream is an export of that commit
    cur,          \* the entry processed by the last step of the loop
    call,         \* what the last step handed to import_content_object
    accepted,     \* the entries under objects/ and xattrs/ accepted so far
    calls,        \* the repository calls made, in order
    nent,         \* number of entries read
    family,       \* which entries an arbitrary stream is made of
    sha_in,       \* the string handed to validate_sha256
    sha_out,      \* what validate_sha256 returned for it
    ocidir,       \* the files of the OCI directory
    bw,           \* the live BlobWriter, if any
    lw,           \* the LayerWriter around it, if any
    ret,          \* what the last call on a writer returned
    hist,         \* the last writer call, the bytes and the number of writes handed
                  \* to the latest writer, the writers built and the blobs returned
    fn_in,        \* the argument of the function applied
    fn_out,       \* what the function returned for it
    bld           \* one run of build_oci: its inputs, position, locals and result,
                  \* and the target path

imp_vars == << pc, state, xattrs, next_xattrs, txn, staged, repo, repo0, result,
               tar, exported, cur, call, accepted, calls, nent, family >>

sha_vars == << sha_in, sha_out >>

oci_vars == << ocidir, bw, lw, ret, hist >>

fun_vars == << fn_in, fn_out >>

vars == << imp_vars, sha_vars, oci_vars, fun_vars, bld >>

\* Longest arbitrary stream.
MaxEntries == 4

\* Longest stream that probes the format checks.
MaxFormatEntries == 3

NoResult == [st |-> "none"]
Err(msg) == [st |-> "err", msg |-> msg]
NoEntry == [etype |-> "none"]

\* No BlobWriter was ever built on the OCI directory.
OciIdle ==
    /\ ocidir = [tmp |-> None, tmpblob |-> None, blobs |-> << >>]
    /\ bw = None
    /\ lw = None
    /\ ret = NoResult
    /\ hist = [last |-> "none", fed |-> << >>, writes |-> 0, made |-> 0, installed |-> {}]

\* No function was applied.
FunIdle ==
    /\ fn_in = << >>
    /\ fn_out = NoResult

\* build_oci was never called.
BuildIdle == bld = [pc |-> "idle"]

\* validate_sha256 was never called.
ShaIdle ==
    /\ sha_in = << >>
    /\ sha_out = NoResult

\* No import_tarball was called on the repository.
ImporterNew ==
    /\ pc = "idle"
    /\ state = Initial
    /\ xattrs = << >>
    /\ next_xattrs = None
    /\ txn = "none"
    /\ staged = {}
    /\ repo \in { {}, CommitClosure(K2) }
    /\ repo0 = repo
    /\ result = NoResult
    /\ exported = None
    /\ cur = NoEntry
    /\ call = None
    /\ accepted = << >>
    /\ calls = << >>
    /\ nent = 0

ImporterInit ==
    /\ ImporterNew
    /\ tar = << >>

Init ==
    /\ ImporterInit
    /\ family = "stream"
    /\ ShaIdle
    /\ OciIdle
    /\ FunIdle
    /\ BuildIdle

\* build: export_ostree_ref_to_blobdir writes the tar stream of a commit of
\* the source repository.
Export ==
    /\ pc = "idle"
    /\ exported = None
    /\ \E c \in SrcCommits :
         /\ tar' = export_ostree_ref_to_blobdir(c)
         /\ exported' = Some(c)
    /\ UNCHANGED << pc, state, xattrs, next_xattrs, txn, staged, repo, repo0, result,
                    cur, call, accepted, calls, nent >>
    /\ UNCHANGED << family, sha_vars, oci_vars, fun_vars, bld >>

\* Drop for Importer: abort_transaction, its result ignored.  Aborting
\* discards what the open transaction staged; there is nothing to abort
\* once the transaction is committed or was never opened.
drop_txn(t) == IF t = "open" THEN "aborted" ELSE t

\* Variant: the Importer of an earlier call is used again, with the
\* reference it still holds.
Begin_reuse ==
    /\ pc = "idle"
    /\ state' = Initial
    /\ xattrs' = << >>
    /\ next_xattrs' = next_xattrs
    /\ staged' = {}
    /\ \E ok \in BOOLEAN :
         IF ok
         THEN /\ txn' = "open"
              /\ pc' = "loop"
              /\ result' = NoResult
              /\ calls' = calls \o << "prepare_transaction" >>
         ELSE /\ txn' = drop_txn(txn)
              /\ pc' = "done"
              /\ result' = Err("prepare_transaction failed")
              /\ calls' = calls \o << "prepare_transaction", "abort_transaction" >>
    /\ UNCHANGED << repo, repo0, tar, exported, cur, call, accepted, nent >>
    /\ UNCHANGED << family, sha_vars, oci_vars, fun_vars, bld >>

\* import_tarball up to the loop: the Importer is built and
\* prepare_transaction is called; when it fails the Importer is dropped.
Begin ==
    /\ pc = "idle"
    /\ state' = Initial
    /\ xattrs' = << >>
    /\ next_xattrs' = None
    /\ staged' = {}
    /\ \E ok \in BOOLEAN :
         IF ok
         THEN /\ txn' = "open"
              /\ pc' = "loop"
              /\ result' = NoResult
              /\ calls' = calls \o << "prepare_transaction" >>
         ELSE /\ txn' = drop_txn(txn)
              /\ pc' = "done"
              /\ result' = Err("prepare_transaction failed")
              /\ calls' = calls \o << "prepare_transaction", "abort_transaction" >>
    /\ UNCHANGED << repo, repo0, tar, exported, cur, call, accepted, nent >>
    /\ UNCHANGED << family, sha_vars, oci_vars, fun_vars, bld >>

\* The stream is a given sequence of entries, read from its head.
FromTar == IsSome(exported) \/ family = "replay"

\* The entries the stream can yield next.
NextEntries ==
    IF FromTar
    THEN (IF tar = << >> THEN {} ELSE { Head(tar) })
    ELSE IF family = "format"
    THEN (IF nent < MaxFormatEntries THEN FormatEntries ELSE {})
    ELSE (IF nent < MaxEntries THEN Entries ELSE {})

AtEof == IF FromTar THEN tar = << >> ELSE TRUE

\* Variant: directory entries are dispatched like the others.
Dispatch_dirs(e) ==
    LET p == strip_prefix(e.path, RepoPrefix)
    IN IF ~from_path_ok(e.path) THEN "nonutf8"
       ELSE IF ~IsSome(p) THEN "skip"
       ELSE IF IsSome(strip_prefix(Unwrap(p), << W_objects >>)) THEN "object"
       ELSE IF IsSome(strip_prefix(Unwrap(p), << W_xattrs >>)) THEN "xattrs"
       ELSE "skip"

\* How import_tarball dispatches an entry: "skip", "nonutf8", "object" or
\* "xattrs".
Dispatch(e) ==
    LET p == strip_prefix(e.path, RepoPrefix)
    IN IF e.etype = "Directory" THEN "skip"
       ELSE IF ~from_path_ok(e.path) THEN "nonutf8"
       ELSE IF ~IsSome(p) THEN "skip"
       ELSE IF IsSome(strip_prefix(Unwrap(p), << W_objects >>)) THEN "object"
       ELSE IF IsSome(strip_prefix(Unwrap(p), << W_xattrs >>)) THEN "xattrs"
       ELSE "skip"

Consume(e) ==
    /\ cur' = e
    /\ nent' = nent + 1
    /\ tar' = IF FromTar THEN Tail(tar) ELSE tar

\* Variant: the Importer has no Drop.
Fail_nodrop(msg) ==
    /\ pc' = "done"
    /\ result' = Err(msg)
    /\ txn' = txn
    /\ staged' = staged
    /\ calls' = calls

\* An error inside the loop: import_tarball returns it and the Importer is
\* dropped, which aborts the transaction.
Fail(msg) ==
    /\ pc' = "done"
    /\ result' = Err(msg)
    /\ txn' = drop_txn(txn)
    /\ staged' = {}
    /\ calls' = calls \o << "abort_transaction" >>

\* The loop body for a directory entry or an entry outside objects/ and
\* xattrs/ of sysroot/ostree/repo/: continue.
SkipEntry ==
    /\ pc = "loop"
    /\ \E e \in NextEntries :
         /\ Dispatch(e) = "skip"
         /\ Consume(e)
    /\ call' = None
    /\ UNCHANGED << pc, state, xattrs, next_xattrs, txn, staged, repo, repo0, result,
                    exported, accepted, calls >>
    /\ UNCHANGED << family, sha_vars, oci_vars, fun_vars, bld >>

\* The record kept of an accepted object entry: its type suffix (with
\* ".xattrs" for a reference), its checksum and its bytes.
Accepted(p, pending, e) ==
    LET pp == parse_object_path(p, pending)
    IN [t |-> pp.objtype \o (IF pp.is_xattrs THEN E_xattrs ELSE << >>),
        c |-> pp.checksum, d |-> e.data]

\* The loop body for an entry under objects/: importer.import_object(entry, p)?
ImportObject ==
    /\ pc = "loop"
    /\ \E e \in NextEntries :
         /\ Dispatch(e) = "object"
         /\ Consume(e)
         /\ LET p == Unwrap(strip_prefix(Unwrap(strip_prefix(e.path, RepoPrefix)),
                                          << W_objects >>))
                r == import_object([state |-> state, xattrs |-> xattrs,
                                    next_xattrs |-> next_xattrs], e, p)
            IN /\ state' = r.state
               /\ next_xattrs' = r.next_xattrs
               /\ call' = r.call
               /\ IF IsSome(r.err)
                  THEN /\ Fail(Unwrap(r.err))
                       /\ accepted' = accepted
                  ELSE /\ staged' = staged \cup r.writes
                       /\ calls' = calls \o [i \in 1..Cardinality(r.writes) |->
                                                "write_metadata"]
                       /\ accepted' = Append(accepted, Accepted(p, next_xattrs, e))
                       /\ UNCHANGED << pc, result, txn >>
    /\ UNCHANGED << xattrs, repo, repo0, exported >>
    /\ UNCHANGED << family, sha_vars, oci_vars, fun_vars, bld >>

\* The loop body for an entry under xattrs/: importer.import_xattrs(entry)?
ImportXattrs ==
    /\ pc = "loop"
    /\ \E e \in NextEntries :
         /\ Dispatch(e) = "xattrs"
         /\ Consume(e)
         /\ LET r == import_xattrs(state, xattrs, e)
            IN /\ xattrs' = r.xattrs
               /\ IF IsSome(r.err)
                  THEN /\ Fail(Unwrap(r.err))
                       /\ accepted' = accepted
                  ELSE /\ accepted' = Append(accepted,
                              [t |-> W_xattrs, c |-> Unwrap(file_name(e.path)),
                               d |-> e.data])
                       /\ UNCHANGED << pc, result, txn, staged, calls >>
    /\ call' = None
    /\ UNCHANGED << state, next_xattrs, repo, repo0, exported >>
    /\ UNCHANGED << family, sha_vars, oci_vars, fun_vars, bld >>

\* The loop body for an entry, not a directory, whose path is not UTF-8:
\* Utf8Path::from_path gives None and import_tarball returns the error.
BadPath ==
    /\ pc = "loop"
    /\ \E e \in NextEntries :
         /\ Dispatch(e) = "nonutf8"
         /\ Consume(e)
    /\ Fail("Invalid non-utf8 path")
    /\ call' = None
    /\ UNCHANGED << state, xattrs, next_xattrs, repo, repo0, exported, accepted >>
    /\ UNCHANGED << family, sha_vars, oci_vars, fun_vars, bld >>

\* "let entry = entry?": the stream yields an error instead of an entry.
ReadError ==
    /\ pc = "loop"
    /\ ~FromTar
    /\ Fail("failed to read entry")
    /\ call' = None
    /\ UNCHANGED << state, xattrs, next_xattrs, repo, repo0, tar, exported, cur,
                    accepted, nent >>
    /\ UNCHANGED << family, sha_vars, oci_vars, fun_vars, bld >>

\* End of stream: importer.commit(), then the Importer is dropped.
\* commit_transaction is called first; the state decides the result after.
Eof ==
    /\ pc = "loop"
    /\ AtEof
    /\ pc' = "done"
    /\ \E ok \in BOOLEAN :
         IF ok
         THEN /\ txn' = "committed"
              /\ repo' = repo \cup staged
              /\ result' = commit_result(state)
         ELSE /\ txn' = drop_txn(txn)
              /\ repo' = repo
              /\ result' = Err("commit_transaction failed")
    /\ staged' = {}
    /\ state' = Initial
    /\ calls' = calls \o << "commit_transaction", "abort_transaction" >>
    /\ call' = None
    /\ UNCHANGED << xattrs, next_xattrs, repo0, tar, exported, cur, accepted, nent >>
    /\ UNCHANGED << family, sha_vars, oci_vars, fun_vars, bld >>

Next ==
    \/ Export
    \/ Begin
    \/ SkipEntry
    \/ ImportObject
    \/ ImportXattrs
    \/ ReadError
    \/ Eof

Spec == Init /\ [][Next]_vars

\* import_tarball on the streams that probe the format checks.
InitFormat ==
    /\ ImporterInit
    /\ family = "format"
    /\ ShaIdle
    /\ OciIdle
    /\ FunIdle
    /\ BuildIdle

NextFormat ==
    \/ Begin
    \/ SkipEntry
    \/ BadPath
    \/ ImportObject
    \/ ImportXattrs
    \/ ReadError
    \/ Eof

SpecFormat == InitFormat /\ [][NextFormat]_vars

\* ------------------------------------------------------------ properties
\* The name of an entry splits at its first '.' into the checksum rest and
\* the type suffix; the parent directory gives the first two characters.
EntryName(e) == e.path[Len(e.path)]

FirstDot(s) ==
    LET dots == { i \in 1..Len(s) : s[i] = "." }
    IN IF dots = {} THEN Len(s) + 1 ELSE CHOOSE i \in dots : \A j \in dots : i <= j

EntrySuffix(e) == SubSeq(EntryName(e), FirstDot(EntryName(e)), Len(EntryName(e)))

EntryChecksum(e) ==
    e.path[Len(e.path) - 1] \o SubSeq(EntryName(e), 1, FirstDot(EntryName(e)) - 1)

\* This step of the loop handed the entry cur' to import_object.
ObjectStep == pc = "loop" /\ nent' = nent + 1 /\ Dispatch(cur') = "object"

WriteCount(log) == Len(SelectSeq(log, LAMBDA c : c = "write_metadata"))

RepoFault ==
    result \in { Err("prepare_transaction failed"), Err("commit_transaction failed") }

\* The accepted entries that import_commit took: the type commit, with or
\* without the xattrs suffix that the commit arm does not look at.
CommitIdx ==
    { i \in DOMAIN accepted : accepted[i].t \in { W_commit, W_commit \o E_xattrs } }

\* C1: importing the tar stream exported for a commit C succeeds, returns
\* C's checksum and leaves the commit, dirtrees and dirmetas reachable from
\* C in the destination repository.
C1_RoundTrip ==
    (pc = "done" /\ IsSome(exported) /\ ~RepoFault)
        => /\ result = [st |-> "ok", val |-> Unwrap(exported)]
           /\ CommitClosure(Unwrap(exported)) \subseteq repo

\* C2: import_tarball returns Ok(c) only when a commit entry was accepted,
\* c being the checksum of the first one, and returns an error when no
\* commit entry was accepted before the end of the stream.
C2_ResultFromState ==
    pc = "done"
        => /\ result.st = "ok"
                => /\ CommitIdx # {}
                   /\ \E i \in CommitIdx :
                        /\ \A j \in CommitIdx : i <= j
                        /\ result.val = accepted[i].c
           /\ CommitIdx = {} => result.st = "err"

C2_Witness ==
    /\ pc = "done"
    /\ result = [st |-> "ok", val |-> K2]
    /\ Len(accepted) >= 2

\* C3: in state Initial an object entry of type file, dirtree, dirmeta or
\* commitmeta makes the import fail, and nothing is written for it.
C3_ContentBeforeCommit ==
    [][ (ObjectStep /\ state = Initial
         /\ EntrySuffix(cur') \in { E_file, E_dirtree, E_dirmeta, E_commitmeta })
            => /\ result'.st = "err"
               /\ pc' = "done"
               /\ WriteCount(calls') = WriteCount(calls)
               /\ staged' = {}
               /\ repo' = repo ]_vars

C3_Witness ==
    /\ pc = "done"
    /\ accepted = << >>
    /\ cur # NoEntry
    /\ Dispatch(cur) = "object"
    /\ EntrySuffix(cur) = E_dirtree
    /\ result = Err("Found content object before commit")

\* C4: in state Importing(c) a further commit entry makes the import fail
\* (with the multiple-commit error), and a second commit is never written.
C4_SecondCommitFatal ==
    [][ (ObjectStep /\ state.tag = "Importing" /\ EntrySuffix(cur') = E_commit)
            => /\ result'.st = "err"
               /\ pc' = "done"
               /\ WriteCount(calls') = WriteCount(calls) ]_vars

\* C5: when import_tarball returns an error the transaction was not
\* committed.
C5_NoCommitOnError ==
    (pc = "done" /\ result.st = "err") => txn # "committed"

\* C6: when import_tarball returns an error the committed objects of the
\* destination repository are those from before the import.
C6_Atomicity ==
    (pc = "done" /\ result.st = "err") => repo = repo0

C6_Witness ==
    /\ pc = "done"
    /\ result.st = "err"
    /\ WriteCount(calls) >= 2
    /\ repo = repo0
    /\ txn = "aborted"

\* C7: with an xattr reference for X pending, the import fails if the next
\* entry under objects/ has another checksum or is another xattr reference.
C7_PendingXattrMustMatch ==
    [][ (ObjectStep /\ IsSome(next_xattrs)
         /\ (EntryChecksum(cur') # Unwrap(next_xattrs)[1]
             \/ EntrySuffix(cur') = E_file \o E_xattrs))
            => (result'.st = "err" /\ pc' = "done") ]_vars

C7_Witness ==
    /\ pc = "done"
    /\ result = Err("Found object but previous xattr was")
    /\ Len(accepted) >= 2
    /\ accepted[Len(accepted)].t = W_file \o W_dot \o W_xattrs

\* C8: a successful import leaves no xattr reference unconsumed: each
\* accepted reference for X is directly followed, among the object entries,
\* by the content object X.
ObjectsAccepted == SelectSeq(accepted, LAMBDA a : a.t # W_xattrs)

C8_XattrRefConsumed ==
    (pc = "done" /\ result.st = "ok")
        => \A i \in DOMAIN ObjectsAccepted :
             ObjectsAccepted[i].t = W_file \o W_dot \o W_xattrs
                => /\ i < Len(ObjectsAccepted)
                   /\ ObjectsAccepted[i + 1].t = W_file
                   /\ ObjectsAccepted[i + 1].c = ObjectsAccepted[i].c

\* C9: after a successful import every accepted .file content object is in
\* the repository.
C9_ContentWritten ==
    (pc = "done" /\ result.st = "ok")
        => \A i \in DOMAIN accepted :
             accepted[i].t = W_file => << "file", accepted[i].c >> \in repo

\* C10: a content object that follows an xattr reference naming blob B is
\* handed the variant of the latest xattrs/B entry; when no xattrs/B entry
\* came before it the import fails.
StoredIdx(b) == { i \in DOMAIN accepted : accepted[i].t = W_xattrs /\ accepted[i].c = b }

C10_XattrsHanded ==
    [][ (ObjectStep /\ IsSome(next_xattrs) /\ EntrySuffix(cur') = E_file
         /\ EntryChecksum(cur') = Unwrap(next_xattrs)[1])
            => LET b == Unwrap(next_xattrs)[2]
               IN IF StoredIdx(b) = {}
                  THEN result'.st = "err" /\ call' = None
                  ELSE /\ IsSome(call')
                       /\ \E i \in StoredIdx(b) :
                            /\ \A j \in StoredIdx(b) : j <= i
                            /\ Unwrap(call').xattrs
                                 = Some([vtype |-> "a(ayay)", bytes |-> accepted[i].d])
                       /\ Unwrap(call').checksum = EntryChecksum(cur') ]_vars

C10_Witness ==
    /\ IsSome(call)
    /\ Unwrap(call).checksum = F1
    /\ Unwrap(call).xattrs = Some([vtype |-> "a(ayay)", bytes |-> Meta("xattrs", X1)])
    /\ result.st # "err"

\* ------------------------------------------------------------ validate_sha256 alone
\* Longest string handed to validate_sha256.
MaxShaLen == 65

\* Characters inside and just outside the ranges '0'..='9' and 'a'..='f'.
ShaChars == { "0", "5", "9", "a", "c", "f", "/", ":", "_", "g", "A", "F", "G", " " }

\* s with its i-th character replaced by c.
Spliced(s, i, c) == [s EXCEPT ![i] = c]

ShaInputs ==
    { Rep(c, n) : c \in ShaChars, n \in 0..MaxShaLen }
        \cup { Spliced(b, i, c) : b \in { K1, F1, X1, Rep("f", 64) }, i \in { 1, 2, 33, 64 },
                                  c \in ShaChars }

InitSha ==
    /\ ImporterInit
    /\ repo = {}
    /\ family = "stream"
    /\ OciIdle
    /\ sha_in \in ShaInputs
    /\ sha_out = NoResult
    /\ FunIdle
    /\ BuildIdle

\* validate_sha256(input): Ok(()) or Err("Invalid checksum ...").
Validate ==
    /\ sha_out = NoResult
    /\ sha_out' = IF validate_sha256(sha_in) THEN [st |-> "ok"] ELSE Err("Invalid checksum")
    /\ UNCHANGED << sha_in, imp_vars, oci_vars, fun_vars, bld >>

\* The caller moves on to the next string.
NextInput ==
    /\ sha_out # NoResult
    /\ sha_in' \in ShaInputs
    /\ sha_out' = NoResult
    /\ UNCHANGED << imp_vars, oci_vars, fun_vars, bld >>

NextSha == Validate \/ NextInput

SpecSha == InitSha /\ [][NextSha]_vars

\* The ASCII code of a character.
Ascii(c) ==
    CASE c = " " -> 32 [] c = "/" -> 47 [] c = "0" -> 48 [] c = "1" -> 49
      [] c = "2" -> 50 [] c = "3" -> 51 [] c = "4" -> 52 [] c = "5" -> 53
      [] c = "6" -> 54 [] c = "7" -> 55 [] c = "8" -> 56 [] c = "9" -> 57
      [] c = ":" -> 58 [] c = "A" -> 65 [] c = "F" -> 70 [] c = "G" -> 71
      [] c = "_" -> 95 [] c = "a" -> 97 [] c = "b" -> 98 [] c = "c" -> 99
      [] c = "d" -> 100 [] c = "e" -> 101 [] c = "f" -> 102 [] c = "g" -> 103
      [] c = "." -> 46 [] OTHER -> 255

\* A string of exactly 64 characters, each an ASCII digit or a letter a-f.
LowerHex64(s) ==
    /\ Len(s) = 64
    /\ \A i \in 1..Len(s) : Ascii(s[i]) \in (48..57) \cup (97..102)

\* C11: validate_sha256 accepts a string exactly when it has 64 characters,
\* each of them 0-9 or a-f; the empty string, a 65-character string and a
\* string with an upper-case letter are rejected.
C11_ValidateSha256 ==
    sha_out # NoResult
        => /\ (sha_out.st = "ok") <=> LowerHex64(sha_in)
           /\ (sha_in = << >> \/ Len(sha_in) = 65) => sha_out.st = "err"
           /\ (\E i \in 1..Len(sha_in) : sha_in[i] \in { "A", "F", "G" })
                 => sha_out.st = "err"

C11_Witness == sha_out = [st |-> "ok"] /\ sha_in = Spliced(F1, 64, "c")

C11_WitnessRejected ==
    sha_out.st = "err" /\ Len(sha_in) = 64 /\ sha_in = Spliced(Rep("f", 64), 33, "F")

\* ------------------------------------------------------------ format checks
\* This step of the loop handed the entry cur' to import_xattrs.
XattrsStep == pc = "loop" /\ nent' = nent + 1 /\ Dispatch(cur') = "xattrs"

\* This step of the loop skipped the entry cur'.
SkipStep == pc = "loop" /\ nent' = nent + 1 /\ Dispatch(cur') = "skip"

\* C12: an entry for a commit, dirtree or dirmeta object is written only
\* when it is a regular file of at most 10 MiB; an entry of another type or
\* a larger one makes the import fail, and nothing is written for it.
C12_MetadataHeader ==
    [][ (ObjectStep /\ EntrySuffix(cur') \in { E_commit, E_dirtree, E_dirmeta })
            => /\ WriteCount(calls') > WriteCount(calls)
                    => cur'.etype = "Regular" /\ cur'.size <= 10 * 1024 * 1024
               /\ (cur'.etype # "Regular" \/ cur'.size > 10 * 1024 * 1024)
                    => /\ result'.st = "err"
                       /\ pc' = "done"
                       /\ WriteCount(calls') = WriteCount(calls) ]_vars

\* A dirtree entry of exactly 10 MiB was written.
C12_Witness ==
    /\ pc = "loop"
    /\ cur.etype = "Regular"
    /\ cur.size = 10 * 1024 * 1024
    /\ EntrySuffix(cur) = E_dirtree
    /\ << "dirtree", T2 >> \in staged

\* C13: an entry under xattrs/ is stored in the xattr map only when its
\* file name is 64 lower-case hexadecimal characters, it is a regular file
\* and its size is at most 1 MiB; otherwise the import fails and the map is
\* left as it was.
C13_XattrsEntry ==
    [][ XattrsStep
            => LET ok == /\ LowerHex64(EntryName(cur'))
                         /\ cur'.etype = "Regular"
                         /\ cur'.size <= 1024 * 1024
               IN /\ (Len(accepted') > Len(accepted) \/ xattrs' # xattrs) => ok
                  /\ ~ok => /\ result'.st = "err"
                            /\ pc' = "done"
                            /\ xattrs' = xattrs
                            /\ accepted' = accepted ]_vars

\* An xattrs entry of exactly 1 MiB was stored.
C13_Witness ==
    /\ pc = "loop"
    /\ cur.etype = "Regular"
    /\ Dispatch(cur) = "xattrs"
    /\ cur.size = 1024 * 1024
    /\ X1 \in DOMAIN xattrs
    /\ xattrs[X1] = [vtype |-> "a(ayay)", bytes |-> cur.data]

\* The directory an entry lies in, and its name up to the first '.'.
EntryParent(e) == e.path[Len(e.path) - 1]

EntryStem(e) == SubSeq(EntryName(e), 1, FirstDot(EntryName(e)) - 1)

\* C14: the checksum of an entry under objects/ is its parent directory's
\* name followed by its file stem; when the parent name has not 2
\* characters, the stem has not 62, or the two together are not 64
\* lower-case hexadecimal characters, the import fails with no repository
\* write and no change of the importer state for that entry.
C14_ChecksumFromPath ==
    [][ ObjectStep
            => LET sum == EntryParent(cur') \o EntryStem(cur')
                   bad == \/ Len(EntryParent(cur')) # 2
                          \/ Len(EntryStem(cur')) # 62
                          \/ ~LowerHex64(sum)
               IN /\ bad => /\ result'.st = "err"
                            /\ pc' = "done"
                            /\ WriteCount(calls') = WriteCount(calls)
                            /\ state' = state
                            /\ accepted' = accepted
                  /\ Len(accepted') > Len(accepted)
                       => accepted'[Len(accepted')].c = sum ]_vars

\* A dirtree entry whose 64 hexadecimal characters are split 3 + 61 was
\* rejected after the commit.
C14_Witness ==
    /\ pc = "done"
    /\ result = Err("Invalid checksum parent")
    /\ state = Importing(K1)
    /\ cur.etype = "Regular"
    /\ EntryParent(cur) \o EntryStem(cur) = T2
    /\ Len(EntryParent(cur)) = 3

\* This step of the loop read the entry cur'.
EntryStep == pc = "loop" /\ nent' = nent + 1

HasPrefix(path, pre) == Len(path) >= Len(pre) /\ SubSeq(path, 1, Len(pre)) = pre

\* A directory, an entry outside sysroot/ostree/repo/, or one inside it
\* that is under neither objects/ nor xattrs/.
Skippable(e) ==
    \/ e.etype = "Directory"
    \/ ~HasPrefix(e.path, RepoPrefix)
    \/ /\ ~HasPrefix(e.path, RepoPrefix \o << W_objects >>)
       /\ ~HasPrefix(e.path, RepoPrefix \o << W_xattrs >>)

ValidUtf8(path) ==
    \A i \in 1..Len(path) : \A j \in 1..Len(path[i]) : path[i][j] # NonUtf8Byte

\* The step did not fail and left the importer and the repository alone.
NothingHappened ==
    /\ result' = result
    /\ pc' = "loop"
    /\ state' = state
    /\ xattrs' = xattrs
    /\ next_xattrs' = next_xattrs
    /\ staged' = staged
    /\ repo' = repo
    /\ calls' = calls

\* C15 as stated: processing a directory entry, an entry whose path is
\* outside sysroot/ostree/repo/, or one inside it under neither objects/
\* nor xattrs/, never fails and leaves the importer state, the xattr map,
\* the pending next_xattrs and the repository unchanged.
C15_SkippedAsStated ==
    [][ (EntryStep /\ Skippable(cur')) => NothingHappened ]_vars

\* C15, amended: the same for a directory entry and for an entry of the
\* other two kinds whose path is valid UTF-8.
C15_SkippedUtf8 ==
    [][ (EntryStep /\ Skippable(cur')
         /\ (cur'.etype = "Directory" \/ ValidUtf8(cur'.path)))
            => NothingHappened ]_vars

\* A payload hard link was skipped while an xattr reference was pending.
C15_Witness ==
    /\ pc = "loop"
    /\ cur.etype = "Link"
    /\ cur.path = << W_dot, W_usr, W_bin, W_true >>
    /\ next_xattrs = Some(<< F1, X1 >>)
    /\ state = Importing(K1)

\* C16: a regular .commitmeta entry that follows the commit is accepted
\* and written to the repository as a metadata object.
C16_CommitmetaAccepted ==
    [][ (ObjectStep /\ state.tag = "Importing" /\ ~IsSome(next_xattrs)
         /\ cur'.etype = "Regular" /\ cur'.size <= 10 * 1024 * 1024
         /\ EntrySuffix(cur') = E_commitmeta /\ EntryChecksum(cur') = state.c)
            => /\ result'.st # "err"
               /\ pc' = "loop"
               /\ WriteCount(calls') > WriteCount(calls) ]_vars

\* ------------------------------------------------------------ OCI blobs
\* hex::encode of the SHA-256 of the bytes: a digest names its bytes, and
\* different bytes have different digests.
sha256_hex(bytes) == [sha256 |-> bytes]

\* The gzip member starts with a header, carries the input in deflate
\* blocks and ends with a trailer holding the CRC and length of the input.
GzHeader == [gz |-> "header"]
GzBlock(bytes) == [gz |-> "deflate", bytes |-> bytes]
GzTrailer(all) == [gz |-> "trailer", crc32 |-> all, isize |-> Len(all)]

\* GzEncoder::new(Vec, level): nothing emitted; pend is the input taken but
\* not yet emitted into the Vec, out the Vec.
GzNew == [hdr |-> FALSE, pend |-> << >>, all |-> << >>, out |-> << >>]

\* compressor.get_mut().clear()
gz_clear(z) == [z EXCEPT !.out = << >>]

\* compressor.write_all(src): the header goes out with the first write;
\* the encoder emits the input it holds (emit) or keeps buffering it.
gz_write(z, src, emit) ==
    LET data == z.pend \o src
    IN [hdr |-> TRUE,
        all |-> z.all \o src,
        pend |-> IF emit THEN << >> ELSE data,
        out |-> z.out \o (IF z.hdr THEN << >> ELSE << GzHeader >>)
                      \o (IF emit /\ data # << >> THEN << GzBlock(data) >> ELSE << >>)]

\* compressor.finish(): header if still due, the last block, the trailer;
\* the Vec is returned.
gz_finish(z) ==
    z.out \o (IF z.hdr THEN << >> ELSE << GzHeader >>)
          \o << GzBlock(z.pend), GzTrailer(z.all) >>

RECURSIVE Concat(_)
Concat(ss) == IF ss = << >> THEN << >> ELSE Head(ss) \o Concat(Tail(ss))

\* What a gzip reader makes of the bytes: Some(input), or None when they
\* are no complete gzip member.
gunzip(b) ==
    IF /\ Len(b) >= 2
       /\ b[1] = GzHeader
       /\ b[Len(b)].gz = "trailer"
       /\ \A i \in 2..(Len(b) - 1) : b[i].gz = "deflate"
    THEN LET data == Concat([i \in 1..(Len(b) - 2) |-> b[i + 1].bytes])
         IN IF b[Len(b)].crc32 = data /\ b[Len(b)].isize = Len(data)
            THEN Some(data) ELSE None
    ELSE None

\* BlobWriter::new on the directory dir: new_file_writer creates the
\* temporary file that FileWriter::complete later installs as .tmpblob.
\* [err, bw, dir].
blob_new(dir, ok) ==
    IF ok
    THEN [err |-> None,
          bw |-> Some([hash |-> << >>, target |-> TRUE, size |-> 0]),
          dir |-> [dir EXCEPT !.tmp = Some(<< >>)]]
    ELSE [err |-> Some("Creating blob writer"), bw |-> None, dir |-> dir]

\* BlobWriter::write(srcbuf): hash.update, writer.write_all (ok says
\* whether it succeeds), size += len.  [err, w, dir].
blob_write(w, dir, src, ok) ==
    IF ok
    THEN [err |-> None,
          w |-> [w EXCEPT !.hash = w.hash \o src, !.size = w.size + Len(src)],
          dir |-> [dir EXCEPT !.tmp = Some(Unwrap(dir.tmp) \o src)]]
    ELSE [err |-> Some("write_all failed"),
          w |-> [w EXCEPT !.hash = w.hash \o src],
          dir |-> dir]

\* Variant: the temporary file is left behind.
drop_blobwriter_leak(w, dir) == dir

\* Drop for BlobWriter: a FileWriter still held is abandoned, which
\* removes its temporary file.
drop_blobwriter(w, dir) == IF w.target THEN [dir EXCEPT !.tmp = None] ELSE dir

\* The ways BlobWriter::complete can go: every call succeeds,
\* FileWriter::complete fails (its temporary file kept or removed), or
\* local_rename fails.
CompleteFaults == { "none", "target kept", "target removed", "rename" }

\* BlobWriter::complete: target.take().unwrap().complete()?, the digest,
\* local_rename(.tmpblob, blobs/sha256/<digest>)?, then self is dropped
\* with target already None.  [err, val, dir].
blob_complete(w, dir, fault) ==
    LET sha256 == sha256_hex(w.hash)
        installed == [dir EXCEPT !.tmp = None, !.tmpblob = dir.tmp]
    IN CASE fault = "target kept" ->
              [err |-> Some("FileWriter::complete failed"), val |-> None, dir |-> dir]
         [] fault = "target removed" ->
              [err |-> Some("FileWriter::complete failed"), val |-> None,
               dir |-> [dir EXCEPT !.tmp = None]]
         [] fault = "rename" ->
              [err |-> Some("local_rename failed"), val |-> None, dir |-> installed]
         [] OTHER ->
              [err |-> None,
               val |-> Some([sha256 |-> sha256, size |-> w.size]),
               dir |-> [installed EXCEPT
                          !.tmpblob = None,
                          !.blobs = (sha256 :> Unwrap(installed.tmpblob)) @@ dir.blobs]]

\* LayerWriter::new: [err, bw, lw, dir].
layer_new(dir, ok) ==
    LET r == blob_new(dir, ok)
    IN [err |-> r.err, bw |-> r.bw, dir |-> r.dir,
        lw |-> IF ok THEN Some([uncompressed_hash |-> << >>, compressor |-> GzNew])
               ELSE None]

\* w.write_all(buf): write is not called for an empty buffer.
write_all(w, dir, buf, ok) ==
    IF buf = << >> THEN [err |-> None, w |-> w, dir |-> dir]
    ELSE blob_write(w, dir, buf, ok)

\* LayerWriter::write(srcbuf): clear the Vec, compress into it, hand what
\* the encoder emitted to the BlobWriter.  [err, l, w, dir].
layer_write(l, w, dir, src, emit, ok) ==
    LET z == gz_write(gz_clear(l.compressor), src, emit)
        r == write_all(w, dir, z.out, ok)
    IN [err |-> r.err, l |-> [l EXCEPT !.compressor = z], w |-> r.w, dir |-> r.dir]

\* Variant: what the encoder emits at finish is not written.
layer_complete_nofinish(l, w, dir, ok, fault) ==
    LET r2 == blob_complete(w, dir, fault)
    IN IF IsSome(r2.err) THEN [err |-> r2.err, val |-> None, dir |-> r2.dir]
       ELSE [err |-> None, dir |-> r2.dir,
             val |-> Some([blob |-> Unwrap(r2.val),
                           uncompressed_sha256 |-> sha256_hex(l.uncompressed_hash)])]

\* LayerWriter::complete: clear, finish the encoder, write its tail,
\* complete the BlobWriter, finish the uncompressed hasher.  When the
\* write fails self is dropped with the FileWriter still held.
\* [err, val, dir].
layer_complete(l, w, dir, ok, fault) ==
    LET buf == gz_finish(gz_clear(l.compressor))
        r1 == write_all(w, dir, buf, ok)
        r2 == blob_complete(r1.w, r1.dir, fault)
    IN IF IsSome(r1.err)
       THEN [err |-> r1.err, val |-> None, dir |-> drop_blobwriter(r1.w, r1.dir)]
       ELSE IF IsSome(r2.err) THEN [err |-> r2.err, val |-> None, dir |-> r2.dir]
       ELSE [err |-> None, dir |-> r2.dir,
             val |-> Some([blob |-> Unwrap(r2.val),
                           uncompressed_sha256 |-> sha256_hex(l.uncompressed_hash)])]

\* Most writers built on one OCI directory, most writes to one writer.
MaxWriters == 2

MaxWrites == 2

\* One byte of a buffer handed to write.
Byte(c) == [byte |-> c]

\* The buffers handed to write.
Chunks == { << >>, << Byte("x") >>, << Byte("y"), Byte("x") >> }

Ok(val) == [st |-> "ok", val |-> val]

InitOci ==
    /\ ImporterInit
    /\ repo = {}
    /\ family = "stream"
    /\ ShaIdle
    /\ OciIdle
    /\ FunIdle
    /\ BuildIdle

\* A caller builds a writer only while the export has not failed.
CanBuild == ~IsSome(bw) /\ ret.st # "err" /\ hist.made < MaxWriters

Built == [hist EXCEPT !.last = "new", !.fed = << >>, !.writes = 0, !.made = @ + 1]

\* write_json_blob: BlobWriter::new(ocidir)?
BlobWriterNew ==
    /\ CanBuild
    /\ \E ok \in BOOLEAN :
         LET r == blob_new(ocidir, ok)
         IN /\ bw' = r.bw
            /\ ocidir' = r.dir
            /\ ret' = IF IsSome(r.err) THEN Err(Unwrap(r.err)) ELSE Ok(None)
    /\ lw' = None
    /\ hist' = Built
    /\ UNCHANGED << imp_vars, sha_vars, fun_vars, bld >>

\* export_ostree_ref_to_blobdir: LayerWriter::new(ocidir)?  build_oci
\* exports the layer before it writes any JSON blob.
LayerWriterNew ==
    /\ CanBuild
    /\ hist.made = 0
    /\ \E ok \in BOOLEAN :
         LET r == layer_new(ocidir, ok)
         IN /\ bw' = r.bw
            /\ lw' = r.lw
            /\ ocidir' = r.dir
            /\ ret' = IF IsSome(r.err) THEN Err(Unwrap(r.err)) ELSE Ok(None)
    /\ hist' = Built
    /\ UNCHANGED << imp_vars, sha_vars, fun_vars, bld >>

\* A caller writes on while no call has failed.
CanWrite == IsSome(bw) /\ ret.st # "err" /\ hist.writes < MaxWrites

\* w.write(srcbuf) on a BlobWriter.
BlobWrite ==
    /\ CanWrite
    /\ ~IsSome(lw)
    /\ \E src \in Chunks, ok \in BOOLEAN :
         LET r == blob_write(Unwrap(bw), ocidir, src, ok)
         IN /\ bw' = Some(r.w)
            /\ ocidir' = r.dir
            /\ ret' = IF IsSome(r.err) THEN Err(Unwrap(r.err)) ELSE Ok(Some(Len(src)))
            /\ hist' = [hist EXCEPT !.last = "write", !.fed = @ \o src, !.writes = @ + 1]
    /\ UNCHANGED << lw, imp_vars, sha_vars, fun_vars, bld >>

\* w.write(srcbuf) on a LayerWriter.
LayerWrite ==
    /\ CanWrite
    /\ IsSome(lw)
    /\ \E src \in Chunks, emit \in BOOLEAN, ok \in BOOLEAN :
         LET r == layer_write(Unwrap(lw), Unwrap(bw), ocidir, src, emit, ok)
         IN /\ bw' = Some(r.w)
            /\ lw' = Some(r.l)
            /\ ocidir' = r.dir
            /\ ret' = IF IsSome(r.err) THEN Err(Unwrap(r.err)) ELSE Ok(Some(Len(src)))
            /\ hist' = [hist EXCEPT !.last = "write", !.fed = @ \o src, !.writes = @ + 1]
    /\ UNCHANGED << imp_vars, sha_vars, fun_vars, bld >>

\* w.complete() on a BlobWriter; the writer is consumed.
BlobComplete ==
    /\ IsSome(bw)
    /\ ~IsSome(lw)
    /\ ret.st # "err"
    /\ \E fault \in CompleteFaults :
         LET r == blob_complete(Unwrap(bw), ocidir, fault)
         IN /\ ocidir' = r.dir
            /\ ret' = IF IsSome(r.err) THEN Err(Unwrap(r.err)) ELSE Ok(r.val)
            /\ hist' = [hist EXCEPT !.last = "complete",
                                    !.installed = IF IsSome(r.err) THEN @
                                                  ELSE @ \cup { Unwrap(r.val) }]
    /\ bw' = None
    /\ UNCHANGED << lw, imp_vars, sha_vars, fun_vars, bld >>

\* w.complete() on a LayerWriter; the writer is consumed.
LayerComplete ==
    /\ IsSome(bw)
    /\ IsSome(lw)
    /\ ret.st # "err"
    /\ \E ok \in BOOLEAN, fault \in CompleteFaults :
         LET r == layer_complete(Unwrap(lw), Unwrap(bw), ocidir, ok, fault)
         IN /\ ocidir' = r.dir
            /\ ret' = IF IsSome(r.err) THEN Err(Unwrap(r.err)) ELSE Ok(r.val)
            /\ hist' = [hist EXCEPT !.last = "complete",
                                    !.installed = IF IsSome(r.err) THEN @
                                                  ELSE @ \cup { Unwrap(r.val).blob }]
    /\ bw' = None
    /\ lw' = None
    /\ UNCHANGED << imp_vars, sha_vars, fun_vars, bld >>

\* The writer goes out of scope without complete(): its caller returns an
\* error (the failed call's, or its own) and Drop for BlobWriter runs.
WriterDrop ==
    /\ IsSome(bw)
    /\ ocidir' = drop_blobwriter(Unwrap(bw), ocidir)
    /\ bw' = None
    /\ lw' = None
    /\ ret' = IF ret.st = "err" THEN ret ELSE Err("caller returned early")
    /\ hist' = [hist EXCEPT !.last = "drop"]
    /\ UNCHANGED << imp_vars, sha_vars, fun_vars, bld >>

NextOci ==
    \/ BlobWriterNew
    \/ LayerWriterNew
    \/ BlobWrite
    \/ LayerWrite
    \/ BlobComplete
    \/ LayerComplete
    \/ WriterDrop

SpecOci == InitOci /\ [][NextOci]_vars

\* ------------------------------------------------------------ OCI blob properties
\* The last call was a complete() that returned Ok.
Completed == hist.last = "complete" /\ ret.st = "ok"

\* It returned a Layer rather than a Blob.
IsLayer == "blob" \in DOMAIN Unwrap(ret.val)

ReturnedBlob == IF IsLayer THEN Unwrap(ret.val).blob ELSE Unwrap(ret.val)

\* C17: every file blobs/sha256/<d> was installed by a successful
\* complete(), d is the SHA-256 of the bytes of the file, and the size
\* returned with d is the number of those bytes; for a layer the file is the
\* whole gzip stream of the input, the encoder's output at finish included.
C17_ContentAddressed ==
    /\ \A d \in DOMAIN ocidir.blobs :
         /\ d = sha256_hex(ocidir.blobs[d])
         /\ \E b \in hist.installed : b.sha256 = d
         /\ \A b \in hist.installed : b.sha256 = d => b.size = Len(ocidir.blobs[d])
    /\ Completed
         => /\ ReturnedBlob.sha256 \in DOMAIN ocidir.blobs
            /\ ReturnedBlob.size = Len(ocidir.blobs[ReturnedBlob.sha256])
            /\ IF IsLayer
               THEN gunzip(ocidir.blobs[ReturnedBlob.sha256]) = Some(hist.fed)
               ELSE ocidir.blobs[ReturnedBlob.sha256] = hist.fed

\* A layer fed three bytes in two writes was published.
C17_Witness ==
    /\ Completed
    /\ IsLayer
    /\ hist.fed = << Byte("y"), Byte("x"), Byte("x") >>
    /\ ReturnedBlob.sha256 \in DOMAIN ocidir.blobs

\* C18: the uncompressed_sha256 of a completed Layer is the SHA-256 of the
\* concatenation of the bytes passed to write, which is the gunzipped layer.
C18_UncompressedDigest ==
    (Completed /\ IsLayer)
        => /\ Unwrap(ret.val).uncompressed_sha256 = sha256_hex(hist.fed)
           /\ gunzip(ocidir.blobs[ReturnedBlob.sha256])
                = Some(Unwrap(ret.val).uncompressed_sha256.sha256)

\* This step dropped the live writer without complete().
DropStep == IsSome(bw) /\ ~IsSome(bw') /\ hist'.last = "drop"

\* C19: dropping a BlobWriter or LayerWriter without complete(), after
\* any number of writes, leaves blobs/sha256 as it was and leaves neither
\* .tmpblob nor the writer's temporary file in the directory.
C19_DropPublishesNothing ==
    [][ DropStep
            => /\ ocidir'.blobs = ocidir.blobs
               /\ ocidir'.tmpblob = None
               /\ ocidir'.tmp = None ]_vars

\* A second writer was dropped after two writes, the first one's blob in
\* place.
C19_Witness ==
    /\ hist.last = "drop"
    /\ hist.writes = 2
    /\ hist.fed # << >>
    /\ DOMAIN ocidir.blobs # {}
    /\ ocidir.tmp = None

\* C20: when the rename of .tmpblob to blobs/sha256/<digest> fails,
\* complete returns an error, blobs/sha256 is as before and .tmpblob does
\* not exist.
C20_FailedRenameLeavesNothing ==
    [][ (hist'.last = "complete" /\ IsSome(bw) /\ ret' = Err("local_rename failed"))
            => /\ ocidir'.blobs = ocidir.blobs
               /\ ocidir'.tmpblob = None
               /\ ocidir'.tmp = None ]_vars

\* ------------------------------------------------------------ build_oci
\* uname -m  ->  the Go architecture.
MACHINE_TO_OCI == ("x86_64" :> "amd64") @@ ("aarch64" :> "arm64")

\* The machine names a host may report.
Machines == { "x86_64", "aarch64", "riscv64" }

OCI_TYPE_CONFIG_JSON == "application/vnd.oci.image.config.v1+json"
OCI_TYPE_MANIFEST_JSON == "application/vnd.oci.image.manifest.v1+json"
OCI_TYPE_LAYER == "application/vnd.oci.image.layer.v1.tar+gzip"

\* Blob::digest_id: format!("sha256:{}", self.sha256)
digest_id(blob) == << "sha256:", blob.sha256 >>

\* cjson::to_writer(w, v): the canonical JSON text of v.
to_json(v) == << [json |-> v] >>

\* What tar.finish() appends to the stream.
TarEnd == [etype |-> "end of archive"]

\* The ways write_json_blob can go.
JsonFaults == { "new", "write" } \cup CompleteFaults

\* Variant: the blob is returned while its file is still .tmpblob.
write_json_blob_unpublished(dir, v, fault) ==
    LET r0 == blob_new(dir, TRUE)
        r1 == blob_write(Unwrap(r0.bw), r0.dir, to_json(v), TRUE)
    IN [err |-> None,
        val |-> Some([sha256 |-> sha256_hex(r1.w.hash), size |-> r1.w.size]),
        dir |-> [r1.dir EXCEPT !.tmp = None, !.tmpblob = r1.dir.tmp]]

\* write_json_blob: BlobWriter::new(ocidir)?, cjson::to_writer(&mut w, v)?
\* (on an error w is dropped), w.complete().  [err, val, dir].
write_json_blob(dir, v, fault) ==
    LET r0 == blob_new(dir, fault # "new")
        r1 == blob_write(Unwrap(r0.bw), r0.dir, to_json(v), fault # "write")
    IN IF IsSome(r0.err) THEN [err |-> r0.err, val |-> None, dir |-> r0.dir]
       ELSE IF IsSome(r1.err)
       THEN [err |-> r1.err, val |-> None, dir |-> drop_blobwriter(r1.w, r1.dir)]
       ELSE blob_complete(r1.w, r1.dir,
                          IF fault \in CompleteFaults THEN fault ELSE "none")

\* The ways the export of the layer can go.
LayerFaults == { "new", "write", "finish", "debug_assert" } \cup CompleteFaults

\* export_ostree_ref_to_blobdir, the writer's side: LayerWriter::new(ocidir)?,
\* the tar stream of the commit and its end written through the writer
\* (on an error or on the panic of append w is dropped), w.complete().
\* [err, val, dir].
export_layer(dir, ostree_commit, emit, fault) ==
    LET r0 == layer_new(dir, fault # "new")
        stream == export_ostree_ref_to_blobdir(ostree_commit) \o << TarEnd >>
        r1 == layer_write(Unwrap(r0.lw), Unwrap(r0.bw), r0.dir, stream, emit,
                          fault # "write")
    IN IF IsSome(r0.err) THEN [err |-> r0.err, val |-> None, dir |-> r0.dir]
       ELSE IF fault = "debug_assert"
       THEN [err |-> Some(PanicWasPresent), val |-> None,
             dir |-> drop_blobwriter(Unwrap(r0.bw), r0.dir)]
       ELSE IF IsSome(r1.err)
       THEN [err |-> r1.err, val |-> None, dir |-> drop_blobwriter(r1.w, r1.dir)]
       ELSE layer_complete(r1.l, r1.w, r1.dir, fault # "finish",
                           IF fault \in CompleteFaults THEN fault ELSE "none")

\* The config, manifest and index documents of build_oci.
config_json(arch, rootfs_blob) ==
    [architecture |-> arch,
     os |-> "linux",
     rootfs |-> [type |-> "layers",
                 diff_ids |-> << << "sha256:", rootfs_blob.uncompressed_sha256 >> >>],
     history |-> << [commit |-> "created by ostree-container"] >>]

manifest_json(config_blob, rootfs_blob) ==
    [schemaVersion |-> 2,
     config |-> [mediaType |-> OCI_TYPE_CONFIG_JSON,
                 size |-> config_blob.size,
                 digest |-> digest_id(config_blob)],
     layers |-> << [mediaType |-> OCI_TYPE_LAYER,
                    size |-> rootfs_blob.blob.size,
                    digest |-> digest_id(rootfs_blob.blob)] >>]

index_json(arch, manifest_blob) ==
    [schemaVersion |-> 2,
     manifests |-> << [mediaType |-> OCI_TYPE_MANIFEST_JSON,
                       digest |-> digest_id(manifest_blob),
                       size |-> manifest_blob.size,
                       platform |-> [architecture |-> arch, os |-> "linux"]] >>]

\* The target path: absent, or a directory with what it holds at its top.
NoPath == [exists |-> FALSE, blobsdir |-> FALSE, layout |-> None, index |-> None]
EmptyPath == [NoPath EXCEPT !.exists = TRUE]
OldLayout == << [json |-> [imageLayoutVersion |-> "0.9"]] >>
OldPath == [exists |-> TRUE, blobsdir |-> TRUE, layout |-> Some(OldLayout), index |-> None]
OCI_LAYOUT == << [json |-> [imageLayoutVersion |-> "1.0.0"]] >>

NoDir == [tmp |-> None, tmpblob |-> None, blobs |-> << >>]
OldDir == [NoDir EXCEPT !.blobs = sha256_hex(<< Byte("x") >>) :> << Byte("x") >>]

\* The refs a caller may name; the last one does not resolve.
Refs == SrcCommits \cup { JunkSum }

\* A caller is about to call build(repo, ostree_ref, Target::OciDir(path)),
\* of lib/src/buildoci.rs or of the draft src/build.rs.
InitBuild ==
    /\ ImporterInit
    /\ repo = {}
    /\ family = "stream"
    /\ ShaIdle
    /\ FunIdle
    /\ bw = None /\ lw = None /\ ret = NoResult
    /\ hist = [last |-> "none", fed |-> << >>, writes |-> 0, made |-> 0, installed |-> {}]
    /\ \E before \in { [path |-> NoPath, dir |-> NoDir],
                       [path |-> EmptyPath, dir |-> NoDir],
                       [path |-> OldPath, dir |-> OldDir] },
          draft \in BOOLEAN, machine \in Machines, ostree_ref \in Refs :
         /\ ocidir = before.dir
         /\ bld = [pc |-> "read_commit", draft |-> draft, machine |-> machine,
                   ostree_ref |-> ostree_ref, before |-> before,
                   path |-> before.path, res |-> NoResult, arch |-> None,
                   rootfs_blob |-> None, config_blob |-> None,
                   manifest_blob |-> None]

Panic(msg) == [st |-> "panic", msg |-> msg]

\* build_oci returns or unwinds.
Finish(b, res) == [b EXCEPT !.pc = "done", !.res = res]

At(pc0) == bld.pc = pc0

\* build / build_impl: repo.open, repo.read_commit(ostree_ref)?, then
\* build_oci for the target.
BuildReadCommit ==
    /\ At("read_commit")
    /\ bld' = IF bld.ostree_ref \in SrcCommits
              THEN [bld EXCEPT !.pc = IF bld.draft THEN "draft" ELSE "arch"]
              ELSE Finish(bld, Err("Refspec not found"))
    /\ UNCHANGED << imp_vars, sha_vars, oci_vars, fun_vars >>

\* let arch = MACHINE_TO_OCI[utsname.machine()]: indexing a phf::Map
\* with a key it does not hold panics.
BuildArch ==
    /\ At("arch")
    /\ bld' = IF bld.machine \in DOMAIN MACHINE_TO_OCI
              THEN [bld EXCEPT !.pc = "create_dir",
                               !.arch = Some(MACHINE_TO_OCI[bld.machine])]
              ELSE Finish(bld, Panic("invalid key"))
    /\ UNCHANGED << imp_vars, sha_vars, oci_vars, fun_vars >>

\* std::fs::create_dir(ocidir).context("Creating OCI dir")?: fails when
\* the path exists, or when the system refuses.
BuildCreateDir ==
    /\ At("create_dir")
    /\ \E ok \in BOOLEAN :
         bld' = IF ok /\ ~bld.path.exists
                THEN [bld EXCEPT !.pc = "blobdir", !.path.exists = TRUE]
                ELSE Finish(bld, Err("Creating OCI dir"))
    /\ UNCHANGED << imp_vars, sha_vars, oci_vars, fun_vars >>

\* openat::Dir::open(ocidir)?, ocidir.ensure_dir_all(BLOBDIR, 0o755)?
BuildBlobDir ==
    /\ At("blobdir")
    /\ \E ok \in BOOLEAN :
         bld' = IF ok
                THEN [bld EXCEPT !.pc = "oci-layout", !.path.blobsdir = TRUE]
                ELSE Finish(bld, Err("Building oci"))
    /\ UNCHANGED << imp_vars, sha_vars, oci_vars, fun_vars >>

\* ocidir.write_file_contents("oci-layout", ...)?: the file appears whole
\* or not at all.
BuildLayout ==
    /\ At("oci-layout")
    /\ \E ok \in BOOLEAN :
         bld' = IF ok
                THEN [bld EXCEPT !.pc = "layer", !.path.layout = Some(OCI_LAYOUT)]
                ELSE Finish(bld, Err("Building oci"))
    /\ UNCHANGED << imp_vars, sha_vars, oci_vars, fun_vars >>

\* let rootfs_blob = export_ostree_ref_to_blobdir(repo, root, commit, ocidir)?
BuildLayer ==
    /\ At("layer")
    /\ \E emit \in BOOLEAN, fault \in LayerFaults :
         LET r == export_layer(ocidir, bld.ostree_ref, emit, fault)
         IN /\ ocidir' = r.dir
            /\ bld' = IF r.err = Some(PanicWasPresent)
                      THEN Finish(bld, Panic(PanicWasPresent))
                      ELSE IF IsSome(r.err)
                      THEN Finish(bld, Err("Writing ostree root to blob"))
                      ELSE [bld EXCEPT !.pc = "config", !.rootfs_blob = r.val]
    /\ UNCHANGED << imp_vars, sha_vars, fun_vars, bw, lw, ret, hist >>

\* let config_blob = write_json_blob(ocidir, &config)?
BuildConfig ==
    /\ At("config")
    /\ \E fault \in JsonFaults :
         LET v == config_json(Unwrap(bld.arch), Unwrap(bld.rootfs_blob))
             r == write_json_blob(ocidir, v, fault)
         IN /\ ocidir' = r.dir
            /\ bld' = IF IsSome(r.err)
                      THEN Finish(bld, Err("Writing json blob"))
                      ELSE [bld EXCEPT !.pc = "manifest", !.config_blob = r.val]
    /\ UNCHANGED << imp_vars, sha_vars, fun_vars, bw, lw, ret, hist >>

\* let manifest_blob = write_json_blob(ocidir, &manifest_data)?
BuildManifest ==
    /\ At("manifest")
    /\ \E fault \in JsonFaults :
         LET v == manifest_json(Unwrap(bld.config_blob), Unwrap(bld.rootfs_blob))
             r == write_json_blob(ocidir, v, fault)
         IN /\ ocidir' = r.dir
            /\ bld' = IF IsSome(r.err)
                      THEN Finish(bld, Err("Writing json blob"))
                      ELSE [bld EXCEPT !.pc = "index", !.manifest_blob = r.val]
    /\ UNCHANGED << imp_vars, sha_vars, fun_vars, bw, lw, ret, hist >>

\* ocidir.write_file_with("index.json", ...)?; Ok(()).  The file appears
\* whole or not at all.
BuildIndex ==
    /\ At("index")
    /\ \E ok \in BOOLEAN :
         bld' = IF ok
                THEN [Finish(bld, Ok(None)) EXCEPT
                        !.path.index =
                           Some(to_json(index_json(Unwrap(bld.arch),
                                                   Unwrap(bld.manifest_blob))))]
                ELSE Finish(bld, Err("Building oci"))
    /\ UNCHANGED << imp_vars, sha_vars, oci_vars, fun_vars >>

\* build_oci of the draft src/build.rs: create_dir_all(ocidir/blobs/sha256)?
\* succeeds on a directory that exists, open, write oci-layout, then
\* export_ostree_ref_to_blobdir creates its file writer and write_ostree is
\* todo!(): the unwinding drops the writer, which removes its file.
BuildDraft ==
    /\ At("draft")
    /\ \E mk \in BOOLEAN, wr \in BOOLEAN :
         bld' = IF ~mk THEN Finish(bld, Err("create_dir_all"))
                ELSE IF ~wr
                THEN [Finish(bld, Err("write_file_contents")) EXCEPT
                        !.path.exists = TRUE, !.path.blobsdir = TRUE]
                ELSE [Finish(bld, Panic("not yet implemented")) EXCEPT
                        !.path.exists = TRUE, !.path.blobsdir = TRUE,
                        !.path.layout = Some(OCI_LAYOUT)]
    /\ UNCHANGED << imp_vars, sha_vars, oci_vars, fun_vars >>

NextBuild ==
    \/ BuildReadCommit
    \/ BuildArch
    \/ BuildCreateDir
    \/ BuildBlobDir
    \/ BuildLayout
    \/ BuildLayer
    \/ BuildConfig
    \/ BuildManifest
    \/ BuildIndex
    \/ BuildDraft

SpecBuild == InitBuild /\ [][NextBuild]_vars

\* ------------------------------------------------------------ build_oci properties
Building == bld.pc # "idle"

\* The file under blobs/sha256 that a digest id names.
BlobNamed(id) == id[2]

Published(id) == BlobNamed(id) \in DOMAIN ocidir.blobs

IsJson(bytes) == Len(bytes) = 1 /\ "json" \in DOMAIN bytes[1]

\* The blobs of the directory that are manifests, configs, layers.
Manifests ==
    { d \in DOMAIN ocidir.blobs :
        IsJson(ocidir.blobs[d]) /\ "layers" \in DOMAIN ocidir.blobs[d][1].json }

Configs ==
    { d \in DOMAIN ocidir.blobs :
        IsJson(ocidir.blobs[d]) /\ "rootfs" \in DOMAIN ocidir.blobs[d][1].json }

Layers == { d \in DOMAIN ocidir.blobs : IsSome(gunzip(ocidir.blobs[d])) }

\* C21: at every moment of an export, failed or not, an index.json that
\* exists names a manifest blob that exists under blobs/sha256, and every
\* manifest blob there names a config blob and a layer blob that exist; a
\* config blob is there only after a layer blob, a manifest only after a
\* config, and index.json only after a manifest.
C21_IndexLast ==
    Building =>
      /\ IsSome(bld.path.index) =>
           /\ \A m \in DOMAIN Unwrap(bld.path.index)[1].json.manifests :
                /\ Published(Unwrap(bld.path.index)[1].json.manifests[m].digest)
                /\ BlobNamed(Unwrap(bld.path.index)[1].json.manifests[m].digest)
                     \in Manifests
           /\ Manifests # {}
      /\ \A d \in Manifests :
           /\ Published(ocidir.blobs[d][1].json.config.digest)
           /\ BlobNamed(ocidir.blobs[d][1].json.config.digest) \in Configs
           /\ \A i \in DOMAIN ocidir.blobs[d][1].json.layers :
                /\ Published(ocidir.blobs[d][1].json.layers[i].digest)
                /\ BlobNamed(ocidir.blobs[d][1].json.layers[i].digest) \in Layers
      /\ Configs # {} => Layers # {}

\* A finished export whose index.json is in place.
C21_Witness ==
    /\ Building
    /\ bld.res.st = "ok"
    /\ IsSome(bld.path.index)
    /\ Cardinality(DOMAIN ocidir.blobs) = 3

\* C22: a build onto a path that exists returns an error and leaves the
\* path and everything under it as they were.
C22_ExistingPathFails ==
    (Building /\ bld.pc = "done" /\ bld.before.path.exists) =>
       /\ bld.res.st = "err"
       /\ bld.path = bld.before.path
       /\ ocidir = bld.before.dir

\* C23: on a machine the architecture table does not hold, an export that
\* gets to the lookup returns an error, and index.json is never written.
C23_UnknownMachineErr ==
    (/\ Building
     /\ bld.pc = "done"
     /\ ~bld.draft
     /\ bld.ostree_ref \in SrcCommits
     /\ bld.machine \notin DOMAIN MACHINE_TO_OCI) =>
       /\ bld.res.st = "err"
       /\ bld.path.index = None

\* ------------------------------------------------------------ fetch_layer_descriptor
IMAGE_LAYER_GZIP_MEDIA_TYPE == "application/vnd.oci.image.layer.v1.tar+gzip"
DOCKER_TYPE_LAYER == "application/vnd.docker.image.rootfs.diff.tar.gzip"

\* The media types a manifest's layers may carry.
MediaTypes ==
    { IMAGE_LAYER_GZIP_MEDIA_TYPE, DOCKER_TYPE_LAYER,
      "application/vnd.oci.image.layer.v1.tar",
      "application/vnd.oci.image.layer.v1.tar+zstd" }

\* Most layers of one manifest.
MaxLayers == 3

\* What pull_manifest may give: an error, or a manifest and its digest; a
\* layer descriptor is told from the others by its digest.
Manifests_in ==
    { [pulled |-> FALSE, layers |-> << >>, digest |-> "none"] } \cup
    { [pulled |-> TRUE,
       layers |-> [i \in DOMAIN f |-> [media_type |-> f[i], digest |-> i]],
       digest |-> "sha256:manifest"] :
        f \in UNION { [1..k -> MediaTypes] : k \in 0..MaxLayers } }

\* Iterator::nth(k): the element after k others.
nth(s, k) == IF Len(s) > k THEN Some(s[k + 1]) ELSE None

\* layers.retain(|layer| matches!(media_type, DOCKER_TYPE_LAYER | IMAGE_LAYER_GZIP_MEDIA_TYPE))
retain_layers(layers) ==
    LET keep(l) == l.media_type \in { DOCKER_TYPE_LAYER, IMAGE_LAYER_GZIP_MEDIA_TYPE }
    IN SelectSeq(layers, keep)

\* fetch_layer_descriptor on what pull_manifest gave.
fetch_layer_descriptor(m) ==
    IF ~m.pulled THEN Err("Fetching layer descriptor")
    ELSE LET layers == retain_layers(m.layers)
             n == Len(layers)
             layer == nth(layers, 1)
         IN IF IsSome(layer)
            THEN IF n > 1
                 THEN Err("Expected 1 layer")
                 ELSE Ok(<< m.digest, Unwrap(layer) >>)
            ELSE Err("No layers found")

InitFetch ==
    /\ ImporterInit
    /\ repo = {}
    /\ family = "stream"
    /\ ShaIdle
    /\ OciIdle
    /\ BuildIdle
    /\ fn_in \in Manifests_in
    /\ fn_out = NoResult

\* import_impl: fetch_layer_descriptor(client, &image_ref).await?
FetchLayerDescriptor ==
    /\ fn_out = NoResult
    /\ fn_out' = fetch_layer_descriptor(fn_in)
    /\ UNCHANGED << fn_in, imp_vars, sha_vars, oci_vars, bld >>

NextFetch == FetchLayerDescriptor

SpecFetch == InitFetch /\ [][NextFetch]_vars

\* C24: on a manifest that was pulled, the call returns Ok exactly when one
\* layer has the OCI gzip or the Docker layer type, and then it returns that
\* layer.
C24_SoleLayerReturned ==
    (fn_out # NoResult /\ fn_in.pulled) =>
       LET sole == { i \in DOMAIN fn_in.layers :
                       fn_in.layers[i].media_type
                          \in { IMAGE_LAYER_GZIP_MEDIA_TYPE, DOCKER_TYPE_LAYER } }
       IN /\ fn_out.st = "ok" <=> Cardinality(sole) = 1
          /\ fn_out.st = "ok" => \E i \in sole : fn_out.val[2] = fn_in.layers[i]

\* ------------------------------------------------------------ exporter properties
\* The export has just written its stream.
Exported == pc = "idle" /\ IsSome(exported)

ExportPrefix == << W_dot, W_ostree, W_repo, W_objects >>

\* The entries of the stream below the objects directory: the shard
\* entries, and the objects inside a shard.
ShardIdx == { i \in DOMAIN tar : Len(tar[i].path) = 5 /\ HasPrefix(tar[i].path, ExportPrefix) }

ObjIdx == { i \in DOMAIN tar : Len(tar[i].path) = 6 /\ HasPrefix(tar[i].path, ExportPrefix) }

PayloadIdx == DOMAIN tar \ (ShardIdx \cup ObjIdx)

\* The entries that hold the object of a checksum.
Pos(c) == { i \in ObjIdx : tar[i].path[5] \o tar[i].path[6] = c }

\* The kind of variant an object entry holds.
KindAt(i) == tar[i].data[1].kind

\* The subdirectory items of the dirtrees reachable from a commit.
SubdirsOf(c) ==
    UNION { { load_variant("dirtree", k[2]).dirs[i] :
                i \in DOMAIN load_variant("dirtree", k[2]).dirs } :
            k \in { k \in CommitClosure(c) : k[1] = "dirtree" } }

\* The regular files reachable from a commit.
FilesOf(c) ==
    UNION { { load_variant("dirtree", k[2]).files[i].csum :
                i \in DOMAIN load_variant("dirtree", k[2]).files } :
            k \in { k \in CommitClosure(c) : k[1] = "dirtree" } }

\* The files below a dirtree with the paths the export gives them:
\* << path, checksum >>.
RECURSIVE FilePaths(_, _)
FilePaths(t, dirpath) ==
    LET v == load_variant("dirtree", t)
    IN { << map_path(join(dirpath, v.files[i].name)), v.files[i].csum >> :
           i \in DOMAIN v.files }
       \cup UNION { FilePaths(v.dirs[i].tree, map_path(join(dirpath, v.dirs[i].name))) :
                    i \in DOMAIN v.dirs }

\* The extension that names an object type.
TypeWord(t) ==
    CASE t = "commit" -> W_commit
      [] t = "dirtree" -> W_dirtree
      [] t = "dirmeta" -> W_dirmeta
      [] t = "file" -> W_file

\* C25: in the stream of one export no dirtree and no dirmeta of the commit
\* is the object of two entries.
C25_MetadataOnce ==
    Exported =>
       \A k \in CommitClosure(Unwrap(exported)) :
          k[1] \in { "dirtree", "dirmeta" } => Cardinality(Pos(k[2])) <= 1

\* The export of K1, where two directories share the dirtree T2 and the
\* dirmeta M2.
C25_Witness ==
    /\ Exported
    /\ exported = Some(K1)
    /\ Cardinality({ d \in SubdirsOf(K1) : d.tree = T2 /\ d.meta = M2 }) = 2
    /\ Cardinality(Pos(T2)) = 1
    /\ Cardinality(Pos(M2)) = 1

\* C26: in the stream of one export each regular file's content is in at
\* most one regular entry, which is at the content object's path, and
\* every other entry that stands for this content is a hardlink to it.
C26_ContentOnce ==
    Exported =>
       \A f \in { f \in FilesOf(Unwrap(exported)) :
                    load_variant("file", f).ftype = "Regular" } :
          LET regs == { i \in DOMAIN tar :
                          tar[i].etype = "Regular" /\ tar[i].data = ContentBytes(f) }
          IN /\ Cardinality(regs) <= 1
             /\ \A i \in regs : i \in Pos(f)
             /\ \A pf \in FilePaths(load_variant("commit", Unwrap(exported)).tree,
                                    << W_dot >>) :
                   pf[2] = f =>
                     \E i \in DOMAIN tar, o \in Pos(f) :
                        /\ tar[i].path = pf[1]
                        /\ tar[i].etype = "Link"
                        /\ tar[i].link = Some(tar[o].path)

\* C27: the stream has 256 shard directory entries, named 00 to ff, and
\* every object entry comes after the entry of its shard directory.
C27_ShardDirs ==
    Exported =>
       /\ Cardinality(ShardIdx) = 256
       /\ { tar[i].path[5] : i \in ShardIdx }
             = { << HexDigits[a], HexDigits[b] >> : a, b \in 1..16 }
       /\ \A i \in ShardIdx : tar[i].etype = "Directory"
       /\ \A o \in ObjIdx :
             \E i \in ShardIdx : i < o /\ tar[i].path = SubSeq(tar[o].path, 1, 5)

\* C28: the shard entries come first; the commit comes before every dirtree
\* and dirmeta; the root dirmeta before the root dirtree; a dirtree below
\* the root comes after the dirmeta of a directory that holds it; every
\* object entry comes before every payload entry.
C28_EntryOrder ==
    Exported =>
       LET c == Unwrap(exported)
           v == load_variant("commit", c)
       IN /\ \A s \in ShardIdx, o \in ObjIdx : s < o
          /\ Pos(c) # {}
          /\ \A i \in Pos(c), o \in ObjIdx :
                KindAt(o) \in { "dirtree", "dirmeta" } => i < o
          /\ \A i \in Pos(v.meta), j \in Pos(v.tree) : i < j
          /\ \A d \in SubdirsOf(c) :
                \A j \in Pos(d.tree) :
                   \E e \in SubdirsOf(c) :
                      e.tree = d.tree /\ \E i \in Pos(e.meta) : i < j
          /\ \A o \in ObjIdx, p \in PayloadIdx : o < p

\* The export of K1: its dirtrees, dirmetas and payload are in the stream.
C28_Witness ==
    /\ Exported
    /\ exported = Some(K1)
    /\ \A k \in CommitClosure(K1) : Pos(k[2]) # {}
    /\ PayloadIdx # {}
    /\ ShardIdx # {}

\* C29: every object of the commit is in the stream at
\* sysroot/ostree/repo/objects/<first two>/<rest>.<type>, and the importer's
\* parsing of this path gives back the type and the checksum.
C29_ObjectPath ==
    Exported =>
       \A k \in CommitClosure(Unwrap(exported)) :
          LET rel == << split_at(k[2], 2)[1],
                        split_at(k[2], 2)[2] \o << "." >> \o TypeWord(k[1]) >>
              pp == parse_object_path(rel, None)
          IN /\ \E i \in DOMAIN tar : tar[i].path = RepoPrefix \o << W_objects >> \o rel
             /\ pp.err = None
             /\ pp.checksum = k[2]
             /\ objtype_from_string(pp.objtype) = Some(k[1])

\* ------------------------------------------------------------ map_path alone
W_etcx == << "e", "t", "c", "x" >>
W_x == << "x" >>
W_root == << "/" >>

\* The components of the paths handed to map_path.
PathWords == { W_dot, W_usr, W_etc, W_etcx, W_lib, W_x, W_root }

\* Most components of one path.
MaxPathLen == 4

PathInputs == UNION { [1..n -> PathWords] : n \in 0..MaxPathLen }

InitMapPath ==
    /\ ImporterInit
    /\ repo = {}
    /\ family = "stream"
    /\ ShaIdle
    /\ OciIdle
    /\ BuildIdle
    /\ fn_in \in PathInputs
    /\ fn_out = NoResult

\* ostree_content_to_tar: let path = map_path(&path)
MapPath ==
    /\ fn_out = NoResult
    /\ fn_out' = Ok(map_path(fn_in))
    /\ UNCHANGED << fn_in, imp_vars, sha_vars, oci_vars, bld >>

NextMapPath == MapPath

SpecMapPath == InitMapPath /\ [][NextMapPath]_vars

\* The path is ./usr/etc or below it, usr and etc being whole components.
UnderUsrEtc(p) == Len(p) >= 3 /\ p[1] = W_dot /\ p[2] = W_usr /\ p[3] = W_etc

\* C30: map_path gives ./etc/<r> for ./usr/etc/<r>, gives back every other
\* path as it is, and applied to its result changes nothing.
C30_MapPath ==
    fn_out # NoResult =>
       /\ UnderUsrEtc(fn_in) =>
             fn_out.val = << W_dot, W_etc >> \o SubSeq(fn_in, 4, Len(fn_in))
       /\ ~UnderUsrEtc(fn_in) => fn_out.val = fn_in
       /\ map_path(fn_out.val) = fn_out.val

\* ./usr/etc/lib was mapped to ./etc/lib.
C30_Witness ==
    /\ fn_in = << W_dot, W_usr, W_etc, W_lib >>
    /\ fn_out = Ok(<< W_dot, W_etc, W_lib >>)

\* ./usr/etcx was left alone.
C30_WitnessOther ==
    /\ fn_in = << W_dot, W_usr, W_etcx >>
    /\ fn_out = Ok(fn_in)

\* ------------------------------------------------------------ import_tarball twice
\* The entries of the streams that are imported twice.
ReplayEntries ==
    { ObjectEntry(K1, E_commit, "Regular", None, Meta("commit", K1)),
      ObjectEntry(K2, E_commit, "Regular", None, Meta("commit", K2)),
      ObjectEntry(T2, E_dirtree, "Regular", None, Meta("dirtree", T2)),
      ObjectEntry(F1, E_file, "Regular", None, ContentBytes(F1)),
      ObjectEntry(F1, E_file \o E_xattrs, "Link", XattrsLink(X1), << >>),
      ObjectEntry(F1, << >>, "Regular", None, ContentBytes(F1)),
      XattrsEntry(X1, "Regular", Meta("xattrs", X1)),
      [etype |-> "Directory", path |-> RepoPrefix \o << W_objects, << "f", "1" >> >>,
       size |-> 0, link |-> None, data |-> << >>] }

\* Longest stream imported twice.
MaxReplay == 3

ReplayStreams == UNION { [1..n -> ReplayEntries] : n \in 0..MaxReplay }

\* A caller holds a tar stream (fn_in) and a repository, and is about to
\* import the stream.
InitReplay ==
    /\ ImporterNew
    /\ family = "replay"
    /\ ShaIdle
    /\ OciIdle
    /\ BuildIdle
    /\ fn_in \in ReplayStreams
    /\ fn_out = NoResult
    /\ tar = fn_in

\* The caller keeps what the first import_tarball returned and calls
\* import_tarball again with the same stream and the same repository.
Again ==
    /\ pc = "done"
    /\ fn_out = NoResult
    /\ fn_out' = [st |-> "first", result |-> result, repo |-> repo]
    /\ pc' = "idle"
    /\ tar' = fn_in
    /\ repo0' = repo
    /\ result' = NoResult
    /\ cur' = NoEntry
    /\ call' = None
    /\ accepted' = << >>
    /\ calls' = << >>
    /\ nent' = 0
    /\ txn' = "none"
    /\ UNCHANGED << state, xattrs, next_xattrs, staged, repo, exported, family, fn_in >>
    /\ UNCHANGED << sha_vars, oci_vars, bld >>

NextReplay ==
    \/ Begin
    \/ SkipEntry
    \/ ImportObject
    \/ ImportXattrs
    \/ Eof
    \/ Again

SpecReplay == InitReplay /\ [][NextReplay]_vars

CancelRequested == [st |-> "cancel requested"]

\* The caller of import_tarball asks for cancellation while the import has
\* not returned.  import_tarball takes no cancellation token and hands
\* gio::NONE_CANCELLABLE to every repository call, so no step of the
\* import reads the request.
RequestCancel ==
    /\ pc \in { "idle", "loop" }
    /\ fn_out = NoResult
    /\ fn_out' = CancelRequested
    /\ UNCHANGED << fn_in, imp_vars, sha_vars, oci_vars, bld >>

NextCancel ==
    \/ Begin
    \/ SkipEntry
    \/ ImportObject
    \/ ImportXattrs
    \/ Eof
    \/ RequestCancel

SpecCancel == InitReplay /\ [][NextCancel]_vars

\* C32: an import that was asked to cancel before it returned, and that
\* the repository did not fail, gives a cancelled error, does not commit its
\* transaction and leaves the repository as it was.
C32_CancelledImport ==
    (pc = "done" /\ fn_out = CancelRequested /\ ~RepoFault) =>
       /\ result = Err("cancelled")
       /\ txn # "committed"
       /\ repo = repo0

\* ------------------------------------------------------------ transaction calls
\* The positions of a repository call in the log of the run.
CallIdx(name) == { i \in DOMAIN calls : calls[i] = name }

PrepareFailed == result = Err("prepare_transaction failed")

\* prepare_transaction is the first call of a run and is called once;
\* write_metadata is called only after it succeeded and before
\* commit_transaction; commit_transaction is called at most once.
TxnOrder ==
    /\ CallIdx("prepare_transaction") = { 1 }
    /\ PrepareFailed =>
          CallIdx("write_metadata") = {} /\ CallIdx("commit_transaction") = {}
    /\ \A w \in CallIdx("write_metadata"), c \in CallIdx("commit_transaction") : w < c
    /\ Cardinality(CallIdx("commit_transaction")) <= 1

\* C33 as stated: the order above, and abort_transaction is called only
\* when prepare_transaction succeeded and the transaction is not committed.
C33_AbortOnlyOpen ==
    pc # "idle" =>
       /\ TxnOrder
       /\ CallIdx("abort_transaction") # {} =>
             ~PrepareFailed /\ txn # "committed"

\* C33 amended: the order above, and abort_transaction is called once, as
\* the last repository call of every run that has returned, whatever
\* became of the transaction.
C33_AbortOnDrop ==
    pc # "idle" =>
       /\ TxnOrder
       /\ pc = "loop" => CallIdx("abort_transaction") = {}
       /\ pc = "done" => CallIdx("abort_transaction") = { Len(calls) }

\* A run that wrote two objects, committed and was dropped.
C33_Witness ==
    /\ pc = "done"
    /\ result.st = "ok"
    /\ txn = "committed"
    /\ Cardinality(CallIdx("write_metadata")) >= 2
    /\ calls[Len(calls)] = "abort_transaction"
    /\ calls[Len(calls) - 1] = "commit_transaction"

\* ------------------------------------------------------------ dedup sets
\* The writer the export of the commit ended with.
ExportWriter == metadata_writer(<< >>, Unwrap(exported))

\* The checksums of the variants of one kind that the stream holds.
EmittedOf(kind) ==
    { k[2] : k \in { k \in CommitClosure(Unwrap(exported)) :
                       \E i \in Pos(k[2]) : KindAt(i) = kind } }

\* C34: after an export wrote_dirtree is the set of the checksums of the
\* dirtree objects on the stream and wrote_dirmeta the set of the checksums
\* of the dirmeta objects on the stream, so no dirtree's checksum is in
\* wrote_dirmeta.
C34_DedupSetsByType ==
    Exported =>
       /\ ExportWriter.wrote_dirtree = EmittedOf("dirtree")
       /\ ExportWriter.wrote_dirmeta = EmittedOf("dirmeta")

\* ------------------------------------------------------------ payload paths
\* The paths of a directory of the repository and of everything below it,
\* as the repository names them, each with the tar entry type of its file.
RECURSIVE RepoPaths(_, _)
RepoPaths(t, dirpath) ==
    LET v == load_variant("dirtree", t)
    IN { << dirpath, "Directory" >> }
       \cup { << Append(dirpath, v.files[i].name),
                 IF load_variant("file", v.files[i].csum).ftype = "Regular"
                 THEN "Regular" ELSE "Symlink" >> : i \in DOMAIN v.files }
       \cup UNION { RepoPaths(v.dirs[i].tree, Append(dirpath, v.dirs[i].name)) :
                    i \in DOMAIN v.dirs }

\* ./usr/etc/<rest> under ./etc, every other path as it is.
UnderEtc(p) ==
    IF UnderUsrEtc(p) THEN << W_dot, W_etc >> \o SubSeq(p, 4, Len(p)) ELSE p

\* C35: no payload entry of an export is at or below ./usr/etc: the payload
\* entries are the files, symlinks and directories of the commit, those at
\* or below ./usr/etc under ./etc with the rest of their path kept, the
\* others at their own path.
C35_NoUsrEtcPayload ==
    Exported =>
       /\ \A i \in PayloadIdx : ~UnderUsrEtc(tar[i].path)
       /\ { << tar[i].path, tar[i].etype >> : i \in PayloadIdx }
            = { << UnderEtc(pt[1]), pt[2] >> :
                  pt \in RepoPaths(load_variant("commit", Unwrap(exported)).tree,
                                   << W_dot >>) }

\* The export of K3, whose ./usr/etc holds a file and a directory with
\* files of its own, next to a commit with paths outside ./usr/etc.
C35_Witness ==
    /\ Exported
    /\ exported = Some(K3)
    /\ \E i \in PayloadIdx :
          tar[i].path = << W_dot, W_etc >> /\ tar[i].etype = "Directory"
    /\ \E i \in PayloadIdx :
          tar[i].path = << W_dot, W_etc, W_passwd >> /\ tar[i].etype = "Regular"
    /\ \E i \in PayloadIdx :
          tar[i].path = << W_dot, W_etc, W_lib, W_sh >> /\ tar[i].etype = "Symlink"
    /\ \E i \in PayloadIdx :
          tar[i].path = << W_dot, W_usr >> /\ tar[i].etype = "Directory"

\* ------------------------------------------------------------ importer state
\* commit() has been called in the step: it calls commit_transaction first.
CommitCalled == CallIdx("commit_transaction")' # {}

\* C36: the Importer of a run starts in state Initial, and once its state is
\* Importing(c) every step that is not commit() leaves it Importing(c), with
\* the same c, whatever the entry of the step is and whether the step
\* succeeds or fails.
C36_StateMonotonic ==
    [][ /\ (pc = "idle" /\ pc' # "idle") => state' = Initial
        /\ (state.tag = "Importing" /\ ~CommitCalled) => state' = state
        /\ (pc' = "loop" /\ state'.tag = "Initial") => state.tag = "Initial" ]_vars

\* A run in state Importing(K2) that has taken a content object and then
\* failed on a second commit object, the state still Importing(K2).
C36_Witness ==
    /\ pc = "done"
    /\ result = Err("Found multiple commit objects")
    /\ state = Importing(K2)
    /\ Len(accepted) >= 2
    /\ CallIdx("commit_transaction") = {}

\* ------------------------------------------------------------ importer assertions
\* C37: whatever the entries of the stream, no step ends in the panic of
\* the assertion of import_commit (the state is Initial) or of
\* import_xattr_ref (the slot next_xattrs is empty), and a step that starts
\* with a pending xattr reference never leaves another one in the slot.
C37_AssertionsHold ==
    [][ /\ result' \notin { Err(PanicState), Err(PanicNextXattrs) }
        /\ (IsSome(next_xattrs) /\ IsSome(next_xattrs'))
              => next_xattrs' = next_xattrs ]_vars

\* A run that went through import_commit, then through import_xattr_ref,
\* and met a second xattr reference while the first was pending.
C37_Witness ==
    /\ pc = "done"
    /\ state.tag = "Importing"
    /\ Len(accepted) >= 2
    /\ accepted[Len(accepted)].t = W_file \o E_xattrs
    /\ result = Err("Found multiple xattrs")

\* ------------------------------------------------------------ xattrs of non-file objects
\* The entry is an object entry <rest>.<type>.xattrs whose type is not file.
NonFileXattrs(e) ==
    /\ Dispatch(e) = "object"
    /\ extension(Unwrap(file_name(e.path))) = Some(W_xattrs)
    /\ IsSome(extension(file_stem(Unwrap(file_name(e.path)))))
    /\ extension(file_stem(Unwrap(file_name(e.path)))) # Some(W_file)

\* C38: in every importer state the step that takes an object entry
\* <rest>.<type>.xattrs with a type other than file ends the run with an
\* error, writes nothing to the repository and leaves the importer state as
\* it was.
C38_NonFileXattrsRejected ==
    [][ (pc = "loop" /\ nent' = nent + 1 /\ NonFileXattrs(cur'))
          => /\ result'.st = "err"
             /\ CallIdx("write_metadata")' = CallIdx("write_metadata")
             /\ state' = state ]_vars

\* ------------------------------------------------------------ dirtree walk
\* How often append_dirtree loaded the dirtree in the export.
Loads(t) == Cardinality({ i \in DOMAIN ExportWriter.loads : ExportWriter.loads[i] = t })

\* C39: in one export append_dirtree loads and walks each dirtree of the
\* commit once, however many directories share it, and emits it once; the
\* walk ends.
C39_DescendOnce ==
    Exported =>
       \A k \in CommitClosure(Unwrap(exported)) :
          k[1] = "dirtree" => Loads(k[2]) = 1 /\ Cardinality(Pos(k[2])) = 1

====
